---- MODULE Spec2Model ----
(***************************************************************************)
(* Model of the meeting transcription prototype: the overlap-aware         *)
(* TextMerger (text_merger.py), the speech-gated chunker                   *)
(* (audio_processor.py) and the orchestration loop of                      *)
(* MeetingProcessor.process_meeting_audio (main.py).                       *)
(*                                                                         *)
(* A Python str is modelled as a sequence of one-character strings, so     *)
(* that len(), strip(), split(), join() and the regular-expression         *)
(* substitutions of clean_text are computed character by character.        *)
(***************************************************************************)
EXTENDS Integers, Sequences, FiniteSets, TLC

VARIABLES
    accumulated_text,       \* TextMerger.accumulated_text
    processed_chunks,       \* TextMerger.processed_chunks
    call,                   \* the most recent call made on the TextMerger
    ret,                    \* the value that call returned
    inputs,                 \* new_text of every merge_transcription call so far
    pc,                     \* position inside process_meeting_audio
    config,                 \* AUDIO_CONFIG as read by AudioProcessor.__init__
    audio_len,              \* len(audio) in samples
    start_idx,              \* create_chunks: start_idx
    windows,                \* create_chunks: every window evaluated so far
    chunks,                 \* create_chunks: chunks
    transcription_results,  \* process_meeting_audio: transcription_results
    merge_pos,              \* process_meeting_audio: position of the merge loop
    merge_calls,            \* chunk_info of every merge call of the pipeline
    result,                 \* what process_meeting_audio returned or raised
    model_loaded,           \* Transcriber.model is not None
    audio_used,             \* samples loaded by the MeetingProcessor so far
    twin                    \* a second TextMerger, given the same texts

mergerVars == <<accumulated_text, processed_chunks, call, ret, inputs, twin>>
pipelineVars == <<pc, config, audio_len, start_idx, windows, chunks,
                  transcription_results, merge_pos, merge_calls, result,
                  model_loaded, audio_used>>
vars == <<accumulated_text, processed_chunks, call, ret, inputs,
          pc, config, audio_len, start_idx, windows, chunks,
          transcription_results, merge_pos, merge_calls, result,
          model_loaded, audio_used, twin>>

Min(a, b) == IF a < b THEN a ELSE b
Max(a, b) == IF a > b THEN a ELSE b

(***************************************************************************)
(* Python str primitives                                                   *)
(***************************************************************************)

\* the characters str.strip(), str.split() and the regex class \s treat as
\* white space (str.isspace), as far as a string of a module can hold them:
\* space, tab, line feed, carriage return, form feed, then the raw control
\* characters U+000B, U+001C, U+001D, U+001E, U+001F and U+0085, the no-break
\* space (U+00A0) and the ogham space mark (U+1680).  Python has more of them
\* (U+2000..U+200A, U+2028, U+2029, U+202F, U+205F, U+3000), which a string
\* of a module cannot hold.
Whitespace == {" ", "\t", "\n", "\r", "\f", "", "",
               "", "", "", "", " ", " "}

\* the argument of strip('.,!?:;"') in words_similar
Punctuation == {".", ",", "!", "?", ":", ";", "\""}

\* the letters str.lower() changes, as far as a string of a module can hold
\* them, and below it (LowerCase) the lower-case letter of each.  A
\* lower-case letter that a string of a module cannot hold is written by its
\* code point ("U+0253" for the lower case of U+0181): one character of the
\* lowered word, which no text holds.  U+0130, which str.lower() turns into
\* two characters, is a letter a string of a module cannot hold.
UpperCase == <<"A", "B", "C", "D", "E", "F", "G", "H", "I", "J", "K", "L", "M",
               "N", "O", "P", "Q", "R", "S", "T", "U", "V", "W", "X", "Y", "Z",
               "À", "Á", "Â", "Ã", "Ä", "Å", "Æ", "Ç", "È", "É", "Ê", "Ë", "Ì",
               "Í", "Î", "Ï", "Ð", "Ñ", "Ò", "Ó", "Ô", "Õ", "Ö", "Ø", "Ù", "Ú",
               "Û", "Ü", "Ý", "Þ", "Ɓ", "Ƃ", "Ƅ", "Ɔ", "Ƈ", "Ɖ", "Ɗ", "Ƌ", "Ǝ",
               "Ə", "Ɛ", "Ƒ", "Ɠ", "Ɣ", "Ɩ", "Ɨ", "Ƙ", "Ɯ", "Ɲ", "Ɵ", "Ơ", "Ƣ",
               "Ƥ", "Ʀ", "Ƨ", "Ʃ", "Ƭ", "Ʈ", "Ư", "Ʊ", "Ʋ", "Ƴ", "Ƶ", "Ʒ", "Ƹ",
               "Ƽ", "Ǆ", "ǅ", "Ǉ", "ǈ", "Ǌ", "ǋ", "Ǎ", "Ǐ", "Ǒ", "Ǔ", "Ǖ", "Ǘ",
               "Ǚ", "Ǜ", "Ǟ", "Ǡ", "Ǣ", "Ǥ", "Ǧ", "Ǩ", "Ǫ", "Ǭ", "Ǯ", "Ǳ", "ǲ",
               "Ǵ", "Ƕ", "Ƿ", "Ǹ", "Ǻ", "Ǽ", "Ǿ", "Ά", "Έ", "Ή", "Ί", "Ό", "Ύ",
               "Ώ", "Α", "Β", "Γ", "Δ", "Ε", "Ζ", "Η", "Θ", "Ι", "Κ", "Λ", "Μ",
               "Ν", "Ξ", "Ο", "Π", "Ρ", "Σ", "Τ", "Υ", "Φ", "Χ", "Ψ", "Ω", "Ϊ",
               "Ϋ", "Ϗ", "Ϙ", "Ϛ", "Ϝ", "Ϟ", "Ϡ", "Ϣ", "Ϥ", "Ϧ", "Ϩ", "Ϫ", "Ϭ",
               "Ϯ", "ϴ", "Ϸ", "Ϲ", "Ϻ", "Ͻ", "Ͼ", "Ͽ", "Ҁ", "Ҋ", "Ҍ", "Ҏ", "Ґ",
               "Ғ", "Ҕ", "Җ", "Ҙ", "Қ", "Ҝ", "Ҟ", "Ҡ", "Ң", "Ҥ", "Ҧ", "Ҩ", "Ҫ",
               "Ҭ", "Ү", "Ұ", "Ҳ", "Ҵ", "Ҷ", "Ҹ", "Һ", "Ҽ", "Ҿ", "Ӏ", "Ӂ", "Ӄ",
               "Ӆ", "Ӈ", "Ӊ", "Ӌ", "Ӎ", "Ӑ", "Ӓ", "Ӕ", "Ӗ", "Ә", "Ӛ", "Ӝ", "Ӟ",
               "Ӡ", "Ӣ", "Ӥ", "Ӧ", "Ө", "Ӫ", "Ӭ", "Ӯ", "Ӱ", "Ӳ", "Ӵ", "Ӷ", "Ӹ",
               "Ӻ", "Ӽ", "Ӿ", "Ⴀ", "Ⴁ", "Ⴂ", "Ⴃ", "Ⴄ", "Ⴅ", "Ⴆ", "Ⴇ", "Ⴈ", "Ⴉ",
               "Ⴊ", "Ⴋ", "Ⴌ", "Ⴍ", "Ⴎ", "Ⴏ", "Ⴐ", "Ⴑ", "Ⴒ", "Ⴓ", "Ⴔ", "Ⴕ", "Ⴖ",
               "Ⴗ", "Ⴘ", "Ⴙ", "Ⴚ", "Ⴛ", "Ⴜ", "Ⴝ", "Ⴞ", "Ⴟ", "Ⴠ", "Ⴡ", "Ⴢ", "Ⴣ",
               "Ⴤ", "Ⴥ", "Ⴧ", "Ⴭ", "Ꭰ", "Ꭱ", "Ꭲ", "Ꭳ", "Ꭴ", "Ꭵ", "Ꭶ", "Ꭷ", "Ꭸ",
               "Ꭹ", "Ꭺ", "Ꭻ", "Ꭼ", "Ꭽ", "Ꭾ", "Ꭿ", "Ꮀ", "Ꮁ", "Ꮂ", "Ꮃ", "Ꮄ", "Ꮅ",
               "Ꮆ", "Ꮇ", "Ꮈ", "Ꮉ", "Ꮊ", "Ꮋ", "Ꮌ", "Ꮍ", "Ꮎ", "Ꮏ", "Ꮐ", "Ꮑ", "Ꮒ",
               "Ꮓ", "Ꮔ", "Ꮕ", "Ꮖ", "Ꮗ", "Ꮘ", "Ꮙ", "Ꮚ", "Ꮛ", "Ꮜ", "Ꮝ", "Ꮞ", "Ꮟ",
               "Ꮠ", "Ꮡ", "Ꮢ", "Ꮣ", "Ꮤ", "Ꮥ", "Ꮦ", "Ꮧ", "Ꮨ", "Ꮩ", "Ꮪ", "Ꮫ", "Ꮬ",
               "Ꮭ", "Ꮮ", "Ꮯ", "Ꮰ", "Ꮱ", "Ꮲ", "Ꮳ", "Ꮴ", "Ꮵ", "Ꮶ", "Ꮷ", "Ꮸ", "Ꮹ",
               "Ꮺ", "Ꮻ", "Ꮼ", "Ꮽ", "Ꮾ", "Ꮿ", "Ᏸ", "Ᏹ", "Ᏺ", "Ᏻ", "Ᏼ", "Ᏽ", "Ა",
               "Ბ", "Გ", "Დ", "Ე", "Ვ", "Ზ", "Თ", "Ი", "Კ", "Ლ", "Მ", "Ნ", "Ო",
               "Პ", "Ჟ", "Რ", "Ს", "Ტ", "Უ", "Ფ", "Ქ", "Ღ", "Ყ", "Შ", "Ჩ", "Ც",
               "Ძ", "Წ", "Ჭ", "Ხ", "Ჯ", "Ჰ", "Ჱ", "Ჲ", "Ჳ", "Ჴ", "Ჵ", "Ჶ", "Ჷ",
               "Ჸ", "Ჹ", "Ჺ", "Ჽ", "Ჾ", "Ჿ", "Ẁ", "Ẃ", "Ẅ", "Ẇ", "Ẉ", "Ẋ", "Ẍ",
               "Ẏ", "Ẑ", "Ẓ", "Ẕ", "ẞ", "Ạ", "Ả", "Ấ", "Ầ", "Ẩ", "Ẫ", "Ậ", "Ắ",
               "Ằ", "Ẳ", "Ẵ", "Ặ", "Ẹ", "Ẻ", "Ẽ", "Ế", "Ề", "Ể", "Ễ", "Ệ", "Ỉ",
               "Ị", "Ọ", "Ỏ", "Ố", "Ồ", "Ổ", "Ỗ", "Ộ", "Ớ", "Ờ", "Ở", "Ỡ", "Ợ",
               "Ụ", "Ủ", "Ứ", "Ừ", "Ử", "Ữ", "Ự", "Ỳ", "Ỵ", "Ỷ", "Ỹ", "Ỻ", "Ỽ",
               "Ỿ", "ᾈ", "ᾉ", "ᾊ", "ᾋ", "ᾌ", "ᾍ", "ᾎ", "ᾏ", "ᾘ", "ᾙ", "ᾚ", "ᾛ",
               "ᾜ", "ᾝ", "ᾞ", "ᾟ", "ᾨ", "ᾩ", "ᾪ", "ᾫ", "ᾬ", "ᾭ", "ᾮ", "ᾯ", "Ᾰ",
               "Ᾱ", "Ὰ", "Ά", "ᾼ", "Ὲ", "Έ", "Ὴ", "Ή", "ῌ", "Ῐ", "Ῑ", "Ὶ", "Ί",
               "Ῠ", "Ῡ", "Ὺ", "Ύ", "Ῥ", "Ὸ", "Ό", "Ὼ", "Ώ", "ῼ", "Ↄ", "Ⓐ", "Ⓑ",
               "Ⓒ", "Ⓓ", "Ⓔ", "Ⓕ", "Ⓖ", "Ⓗ", "Ⓘ", "Ⓙ", "Ⓚ", "Ⓛ", "Ⓜ", "Ⓝ", "Ⓞ",
               "Ⓟ", "Ⓠ", "Ⓡ", "Ⓢ", "Ⓣ", "Ⓤ", "Ⓥ", "Ⓦ", "Ⓧ", "Ⓨ", "Ⓩ", "Ⲁ", "Ⲃ",
               "Ⲅ", "Ⲇ", "Ⲉ", "Ⲋ", "Ⲍ", "Ⲏ", "Ⲑ", "Ⲓ", "Ⲕ", "Ⲗ", "Ⲙ", "Ⲛ", "Ⲝ",
               "Ⲟ", "Ⲡ", "Ⲣ", "Ⲥ", "Ⲧ", "Ⲩ", "Ⲫ", "Ⲭ", "Ⲯ", "Ⲱ", "Ⲳ", "Ⲵ", "Ⲷ",
               "Ⲹ", "Ⲻ", "Ⲽ", "Ⲿ", "Ⳁ", "Ⳃ", "Ⳅ", "Ⳇ", "Ⳉ", "Ⳋ", "Ⳍ", "Ⳏ", "Ⳑ",
               "Ⳓ", "Ⳕ", "Ⳗ", "Ⳙ", "Ⳛ", "Ⳝ", "Ⳟ", "Ⳡ", "Ⳣ", "Ⳬ", "Ⳮ", "Ⳳ", "Ꚁ",
               "Ꚃ", "Ꚅ", "Ꚇ", "Ꚉ", "Ꚋ", "Ꚍ", "Ꚏ", "Ꚑ", "Ꚓ", "Ꚕ", "Ꚗ", "Ꚙ", "Ꚛ",
               "Ꞁ", "Ꞃ", "Ꞅ", "Ꞇ", "Ꞌ", "Ɥ", "Ꞑ", "Ꞓ", "Ꞗ", "Ꞙ", "Ꞛ", "Ꞝ", "Ꞟ",
               "Ꞡ", "Ꞣ", "Ꞥ", "Ꞧ", "Ꞩ", "Ɦ", "Ɜ", "Ɡ", "Ɬ", "Ɪ", "Ʞ", "Ʇ", "Ʝ",
               "Ꭓ", "Ꞵ", "Ꞷ", "Ꞹ", "Ꞻ", "Ꞽ", "Ꞿ", "Ꟁ", "Ꟃ", "Ꞔ", "Ʂ", "Ᶎ", "Ꟈ",
               "Ꟊ", "Ꟑ", "Ꟗ", "Ꟙ", "Ꟶ">>

LowerCase == <<"a", "b", "c", "d", "e", "f", "g", "h", "i", "j",
               "k", "l", "m", "n", "o", "p", "q", "r", "s", "t",
               "u", "v", "w", "x", "y", "z", "à", "á", "â", "ã",
               "ä", "å", "æ", "ç", "è", "é", "ê", "ë", "ì", "í",
               "î", "ï", "ð", "ñ", "ò", "ó", "ô", "õ", "ö", "ø",
               "ù", "ú", "û", "ü", "ý", "þ", "U+0253", "ƃ", "ƅ", "U+0254",
               "ƈ", "U+0256", "U+0257", "ƌ", "ǝ", "U+0259", "U+025B", "ƒ", "U+0260", "U+0263",
               "U+0269", "U+0268", "ƙ", "U+026F", "U+0272", "U+0275", "ơ", "ƣ", "ƥ", "ʀ",
               "ƨ", "ʃ", "ƭ", "ʈ", "ư", "ʊ", "ʋ", "ƴ", "ƶ", "ʒ",
               "ƹ", "ƽ", "ǆ", "ǆ", "ǉ", "ǉ", "ǌ", "ǌ", "ǎ", "ǐ",
               "ǒ", "ǔ", "ǖ", "ǘ", "ǚ", "ǜ", "ǟ", "ǡ", "ǣ", "ǥ",
               "ǧ", "ǩ", "ǫ", "ǭ", "ǯ", "ǳ", "ǳ", "ǵ", "ƕ", "ƿ",
               "ǹ", "ǻ", "ǽ", "ǿ", "ά", "έ", "ή", "ί", "ό", "ύ",
               "ώ", "α", "β", "γ", "δ", "ε", "ζ", "η", "θ", "ι",
               "κ", "λ", "μ", "ν", "ξ", "ο", "π", "ρ", "σ", "τ",
               "υ", "φ", "χ", "ψ", "ω", "ϊ", "ϋ", "ϗ", "ϙ", "ϛ",
               "ϝ", "ϟ", "ϡ", "ϣ", "ϥ", "ϧ", "ϩ", "ϫ", "ϭ", "ϯ",
               "θ", "ϸ", "ϲ", "ϻ", "U+037B", "U+037C", "U+037D", "ҁ", "ҋ", "ҍ",
               "ҏ", "ґ", "ғ", "ҕ", "җ", "ҙ", "қ", "ҝ", "ҟ", "ҡ",
               "ң", "ҥ", "ҧ", "ҩ", "ҫ", "ҭ", "ү", "ұ", "ҳ", "ҵ",
               "ҷ", "ҹ", "һ", "ҽ", "ҿ", "ӏ", "ӂ", "ӄ", "ӆ", "ӈ",
               "ӊ", "ӌ", "ӎ", "ӑ", "ӓ", "ӕ", "ӗ", "ә", "ӛ", "ӝ",
               "ӟ", "ӡ", "ӣ", "ӥ", "ӧ", "ө", "ӫ", "ӭ", "ӯ", "ӱ",
               "ӳ", "ӵ", "ӷ", "ӹ", "ӻ", "ӽ", "ӿ", "U+2D00", "U+2D01", "U+2D02",
               "U+2D03", "U+2D04", "U+2D05", "U+2D06", "U+2D07", "U+2D08", "U+2D09", "U+2D0A", "U+2D0B", "U+2D0C",
               "U+2D0D", "U+2D0E", "U+2D0F", "U+2D10", "U+2D11", "U+2D12", "U+2D13", "U+2D14", "U+2D15", "U+2D16",
               "U+2D17", "U+2D18", "U+2D19", "U+2D1A", "U+2D1B", "U+2D1C", "U+2D1D", "U+2D1E", "U+2D1F", "U+2D20",
               "U+2D21", "U+2D22", "U+2D23", "U+2D24", "U+2D25", "U+2D27", "U+2D2D", "U+AB70", "U+AB71", "U+AB72",
               "U+AB73", "U+AB74", "U+AB75", "U+AB76", "U+AB77", "U+AB78", "U+AB79", "U+AB7A", "U+AB7B", "U+AB7C",
               "U+AB7D", "U+AB7E", "U+AB7F", "ꮀ", "ꮁ", "ꮂ", "ꮃ", "ꮄ", "ꮅ", "ꮆ",
               "ꮇ", "ꮈ", "ꮉ", "ꮊ", "ꮋ", "ꮌ", "ꮍ", "ꮎ", "ꮏ", "ꮐ",
               "ꮑ", "ꮒ", "ꮓ", "ꮔ", "ꮕ", "ꮖ", "ꮗ", "ꮘ", "ꮙ", "ꮚ",
               "ꮛ", "ꮜ", "ꮝ", "ꮞ", "ꮟ", "ꮠ", "ꮡ", "ꮢ", "ꮣ", "ꮤ",
               "ꮥ", "ꮦ", "ꮧ", "ꮨ", "ꮩ", "ꮪ", "ꮫ", "ꮬ", "ꮭ", "ꮮ",
               "ꮯ", "ꮰ", "ꮱ", "ꮲ", "ꮳ", "ꮴ", "ꮵ", "ꮶ", "ꮷ", "ꮸ",
               "ꮹ", "ꮺ", "ꮻ", "ꮼ", "ꮽ", "ꮾ", "ꮿ", "ᏸ", "ᏹ", "ᏺ",
               "ᏻ", "ᏼ", "ᏽ", "ა", "ბ", "გ", "დ", "ე", "ვ", "ზ",
               "თ", "ი", "კ", "ლ", "მ", "ნ", "ო", "პ", "ჟ", "რ",
               "ს", "ტ", "უ", "ფ", "ქ", "ღ", "ყ", "შ", "ჩ", "ც",
               "ძ", "წ", "ჭ", "ხ", "ჯ", "ჰ", "ჱ", "ჲ", "ჳ", "ჴ",
               "ჵ", "ჶ", "ჷ", "ჸ", "ჹ", "ჺ", "ჽ", "ჾ", "ჿ", "ẁ",
               "ẃ", "ẅ", "ẇ", "ẉ", "ẋ", "ẍ", "ẏ", "ẑ", "ẓ", "ẕ",
               "ß", "ạ", "ả", "ấ", "ầ", "ẩ", "ẫ", "ậ", "ắ", "ằ",
               "ẳ", "ẵ", "ặ", "ẹ", "ẻ", "ẽ", "ế", "ề", "ể", "ễ",
               "ệ", "ỉ", "ị", "ọ", "ỏ", "ố", "ồ", "ổ", "ỗ", "ộ",
               "ớ", "ờ", "ở", "ỡ", "ợ", "ụ", "ủ", "ứ", "ừ", "ử",
               "ữ", "ự", "ỳ", "ỵ", "ỷ", "ỹ", "ỻ", "ỽ", "ỿ", "ᾀ",
               "ᾁ", "ᾂ", "ᾃ", "ᾄ", "ᾅ", "ᾆ", "ᾇ", "ᾐ", "ᾑ", "ᾒ",
               "ᾓ", "ᾔ", "ᾕ", "ᾖ", "ᾗ", "ᾠ", "ᾡ", "ᾢ", "ᾣ", "ᾤ",
               "ᾥ", "ᾦ", "ᾧ", "ᾰ", "ᾱ", "U+1F70", "U+1F71", "ᾳ", "U+1F72", "U+1F73",
               "U+1F74", "U+1F75", "ῃ", "ῐ", "ῑ", "U+1F76", "U+1F77", "ῠ", "ῡ", "U+1F7A",
               "U+1F7B", "ῥ", "U+1F78", "U+1F79", "U+1F7C", "U+1F7D", "ῳ", "ↄ", "ⓐ", "ⓑ",
               "ⓒ", "ⓓ", "ⓔ", "ⓕ", "ⓖ", "ⓗ", "ⓘ", "ⓙ", "ⓚ", "ⓛ",
               "ⓜ", "ⓝ", "ⓞ", "ⓟ", "ⓠ", "ⓡ", "ⓢ", "ⓣ", "ⓤ", "ⓥ",
               "ⓦ", "ⓧ", "ⓨ", "ⓩ", "ⲁ", "ⲃ", "ⲅ", "ⲇ", "ⲉ", "ⲋ",
               "ⲍ", "ⲏ", "ⲑ", "ⲓ", "ⲕ", "ⲗ", "ⲙ", "ⲛ", "ⲝ", "ⲟ",
               "ⲡ", "ⲣ", "ⲥ", "ⲧ", "ⲩ", "ⲫ", "ⲭ", "ⲯ", "ⲱ", "ⲳ",
               "ⲵ", "ⲷ", "ⲹ", "ⲻ", "ⲽ", "ⲿ", "ⳁ", "ⳃ", "ⳅ", "ⳇ",
               "ⳉ", "ⳋ", "ⳍ", "ⳏ", "ⳑ", "ⳓ", "ⳕ", "ⳗ", "ⳙ", "ⳛ",
               "ⳝ", "ⳟ", "ⳡ", "ⳣ", "ⳬ", "ⳮ", "ⳳ", "ꚁ", "ꚃ", "ꚅ",
               "ꚇ", "ꚉ", "ꚋ", "ꚍ", "ꚏ", "ꚑ", "ꚓ", "ꚕ", "ꚗ", "ꚙ",
               "ꚛ", "ꞁ", "ꞃ", "ꞅ", "ꞇ", "ꞌ", "U+0265", "ꞑ", "ꞓ", "ꞗ",
               "ꞙ", "ꞛ", "ꞝ", "ꞟ", "ꞡ", "ꞣ", "ꞥ", "ꞧ", "ꞩ", "U+0266",
               "U+025C", "U+0261", "U+026C", "U+026A", "ʞ", "ʇ", "ʝ", "U+AB53", "ꞵ", "ꞷ",
               "ꞹ", "ꞻ", "ꞽ", "ꞿ", "ꟁ", "ꟃ", "ꞔ", "ʂ", "ᶎ", "ꟈ",
               "ꟊ", "ꟑ", "ꟗ", "ꟙ", "ꟶ">>

\* the lower-case letter of every upper-case letter
ToLower ==
    [c \in {UpperCase[i] : i \in 1..Len(UpperCase)} |->
        LowerCase[CHOOSE i \in 1..Len(UpperCase) : UpperCase[i] = c]]

\* the letters str.lower() changes
Cased == DOMAIN ToLower

\* the cased letters str.lower() leaves alone (the lower-case letters, and
\* letters like U+00AA), without the case-ignorable ones
SmallCased ==
    {"a", "b", "c", "d", "e", "f", "g", "h", "i", "j", "k", "l", "m",
     "n", "o", "p", "q", "r", "s", "t", "u", "v", "w", "x", "y", "z",
     "ª", "µ", "º", "ß", "à", "á", "â", "ã", "ä", "å", "æ", "ç", "è",
     "é", "ê", "ë", "ì", "í", "î", "ï", "ð", "ñ", "ò", "ó", "ô", "õ",
     "ö", "ø", "ù", "ú", "û", "ü", "ý", "þ", "ÿ", "ƀ", "ƃ", "ƅ", "ƈ",
     "ƌ", "ƍ", "ƒ", "ƕ", "ƙ", "ƚ", "ƛ", "ƞ", "ơ", "ƣ", "ƥ", "ƨ", "ƪ",
     "ƫ", "ƭ", "ư", "ƴ", "ƶ", "ƹ", "ƺ", "ƽ", "ƾ", "ƿ", "ǆ", "ǉ", "ǌ",
     "ǎ", "ǐ", "ǒ", "ǔ", "ǖ", "ǘ", "ǚ", "ǜ", "ǝ", "ǟ", "ǡ", "ǣ", "ǥ",
     "ǧ", "ǩ", "ǫ", "ǭ", "ǯ", "ǰ", "ǳ", "ǵ", "ǹ", "ǻ", "ǽ", "ǿ", "ʀ",
     "ʁ", "ʂ", "ʃ", "ʄ", "ʅ", "ʆ", "ʇ", "ʈ", "ʉ", "ʊ", "ʋ", "ʌ", "ʍ",
     "ʎ", "ʏ", "ʐ", "ʑ", "ʒ", "ʓ", "ʕ", "ʖ", "ʗ", "ʘ", "ʙ", "ʚ", "ʛ",
     "ʜ", "ʝ", "ʞ", "ʟ", "ʠ", "ʡ", "ʢ", "ʣ", "ʤ", "ʥ", "ʦ", "ʧ", "ʨ",
     "ʩ", "ʪ", "ʫ", "ʬ", "ʭ", "ʮ", "ʯ", "ΐ", "ά", "έ", "ή", "ί", "ΰ",
     "α", "β", "γ", "δ", "ε", "ζ", "η", "θ", "ι", "κ", "λ", "μ", "ν",
     "ξ", "ο", "π", "ρ", "ς", "σ", "τ", "υ", "φ", "χ", "ψ", "ω", "ϊ",
     "ϋ", "ό", "ύ", "ώ", "ϐ", "ϑ", "ϒ", "ϓ", "ϔ", "ϕ", "ϖ", "ϗ", "ϙ",
     "ϛ", "ϝ", "ϟ", "ϡ", "ϣ", "ϥ", "ϧ", "ϩ", "ϫ", "ϭ", "ϯ", "ϰ", "ϱ",
     "ϲ", "ϳ", "ϵ", "ϸ", "ϻ", "ϼ", "ҁ", "ҋ", "ҍ", "ҏ", "ґ", "ғ", "ҕ",
     "җ", "ҙ", "қ", "ҝ", "ҟ", "ҡ", "ң", "ҥ", "ҧ", "ҩ", "ҫ", "ҭ", "ү",
     "ұ", "ҳ", "ҵ", "ҷ", "ҹ", "һ", "ҽ", "ҿ", "ӂ", "ӄ", "ӆ", "ӈ", "ӊ",
     "ӌ", "ӎ", "ӏ", "ӑ", "ӓ", "ӕ", "ӗ", "ә", "ӛ", "ӝ", "ӟ", "ӡ", "ӣ",
     "ӥ", "ӧ", "ө", "ӫ", "ӭ", "ӯ", "ӱ", "ӳ", "ӵ", "ӷ", "ӹ", "ӻ", "ӽ",
     "ӿ", "ր", "ց", "ւ", "փ", "ք", "օ", "ֆ", "և", "ֈ", "ა", "ბ", "გ",
     "დ", "ე", "ვ", "ზ", "თ", "ი", "კ", "ლ", "მ", "ნ", "ო", "პ", "ჟ",
     "რ", "ს", "ტ", "უ", "ფ", "ქ", "ღ", "ყ", "შ", "ჩ", "ც", "ძ", "წ",
     "ჭ", "ხ", "ჯ", "ჰ", "ჱ", "ჲ", "ჳ", "ჴ", "ჵ", "ჶ", "ჷ", "ჸ", "ჹ",
     "ჺ", "ჽ", "ჾ", "ჿ", "ᏸ", "ᏹ", "ᏺ", "ᏻ", "ᏼ", "ᏽ", "ᲀ", "ᲁ", "ᲂ",
     "ᲃ", "ᲄ", "ᲅ", "ᲆ", "ᲇ", "ᲈ", "ᶀ", "ᶁ", "ᶂ", "ᶃ", "ᶄ", "ᶅ", "ᶆ",
     "ᶇ", "ᶈ", "ᶉ", "ᶊ", "ᶋ", "ᶌ", "ᶍ", "ᶎ", "ᶏ", "ᶐ", "ᶑ", "ᶒ", "ᶓ",
     "ᶔ", "ᶕ", "ᶖ", "ᶗ", "ᶘ", "ᶙ", "ᶚ", "ẁ", "ẃ", "ẅ", "ẇ", "ẉ", "ẋ",
     "ẍ", "ẏ", "ẑ", "ẓ", "ẕ", "ẖ", "ẗ", "ẘ", "ẙ", "ẚ", "ẛ", "ẜ", "ẝ",
     "ẟ", "ạ", "ả", "ấ", "ầ", "ẩ", "ẫ", "ậ", "ắ", "ằ", "ẳ", "ẵ", "ặ",
     "ẹ", "ẻ", "ẽ", "ế", "ề", "ể", "ễ", "ệ", "ỉ", "ị", "ọ", "ỏ", "ố",
     "ồ", "ổ", "ỗ", "ộ", "ớ", "ờ", "ở", "ỡ", "ợ", "ụ", "ủ", "ứ", "ừ",
     "ử", "ữ", "ự", "ỳ", "ỵ", "ỷ", "ỹ", "ỻ", "ỽ", "ỿ", "ᾀ", "ᾁ", "ᾂ",
     "ᾃ", "ᾄ", "ᾅ", "ᾆ", "ᾇ", "ᾐ", "ᾑ", "ᾒ", "ᾓ", "ᾔ", "ᾕ", "ᾖ", "ᾗ",
     "ᾠ", "ᾡ", "ᾢ", "ᾣ", "ᾤ", "ᾥ", "ᾦ", "ᾧ", "ᾰ", "ᾱ", "ᾲ", "ᾳ", "ᾴ",
     "ᾶ", "ᾷ", "ι", "ῂ", "ῃ", "ῄ", "ῆ", "ῇ", "ῐ", "ῑ", "ῒ", "ΐ", "ῖ",
     "ῗ", "ῠ", "ῡ", "ῢ", "ΰ", "ῤ", "ῥ", "ῦ", "ῧ", "ῲ", "ῳ", "ῴ", "ῶ",
     "ῷ", "ↄ", "ⓐ", "ⓑ", "ⓒ", "ⓓ", "ⓔ", "ⓕ", "ⓖ", "ⓗ", "ⓘ", "ⓙ", "ⓚ",
     "ⓛ", "ⓜ", "ⓝ", "ⓞ", "ⓟ", "ⓠ", "ⓡ", "ⓢ", "ⓣ", "ⓤ", "ⓥ", "ⓦ", "ⓧ",
     "ⓨ", "ⓩ", "ⲁ", "ⲃ", "ⲅ", "ⲇ", "ⲉ", "ⲋ", "ⲍ", "ⲏ", "ⲑ", "ⲓ", "ⲕ",
     "ⲗ", "ⲙ", "ⲛ", "ⲝ", "ⲟ", "ⲡ", "ⲣ", "ⲥ", "ⲧ", "ⲩ", "ⲫ", "ⲭ", "ⲯ",
     "ⲱ", "ⲳ", "ⲵ", "ⲷ", "ⲹ", "ⲻ", "ⲽ", "ⲿ", "ⳁ", "ⳃ", "ⳅ", "ⳇ", "ⳉ",
     "ⳋ", "ⳍ", "ⳏ", "ⳑ", "ⳓ", "ⳕ", "ⳗ", "ⳙ", "ⳛ", "ⳝ", "ⳟ", "ⳡ", "ⳣ",
     "ⳤ", "ⳬ", "ⳮ", "ⳳ", "ꚁ", "ꚃ", "ꚅ", "ꚇ", "ꚉ", "ꚋ", "ꚍ", "ꚏ", "ꚑ",
     "ꚓ", "ꚕ", "ꚗ", "ꚙ", "ꚛ", "ꞁ", "ꞃ", "ꞅ", "ꞇ", "ꞌ", "ꞎ", "ꞑ", "ꞓ",
     "ꞔ", "ꞕ", "ꞗ", "ꞙ", "ꞛ", "ꞝ", "ꞟ", "ꞡ", "ꞣ", "ꞥ", "ꞧ", "ꞩ", "ꞯ",
     "ꞵ", "ꞷ", "ꞹ", "ꞻ", "ꞽ", "ꞿ", "ꟁ", "ꟃ", "ꟈ", "ꟊ", "ꟑ", "ꟓ", "ꟕ",
     "ꟗ", "ꟙ", "ꟶ", "ꟺ", "ꮀ", "ꮁ", "ꮂ", "ꮃ", "ꮄ", "ꮅ", "ꮆ", "ꮇ", "ꮈ",
     "ꮉ", "ꮊ", "ꮋ", "ꮌ", "ꮍ", "ꮎ", "ꮏ", "ꮐ", "ꮑ", "ꮒ", "ꮓ", "ꮔ", "ꮕ",
     "ꮖ", "ꮗ", "ꮘ", "ꮙ", "ꮚ", "ꮛ", "ꮜ", "ꮝ", "ꮞ", "ꮟ", "ꮠ", "ꮡ", "ꮢ",
     "ꮣ", "ꮤ", "ꮥ", "ꮦ", "ꮧ", "ꮨ", "ꮩ", "ꮪ", "ꮫ", "ꮬ", "ꮭ", "ꮮ", "ꮯ",
     "ꮰ", "ꮱ", "ꮲ", "ꮳ", "ꮴ", "ꮵ", "ꮶ", "ꮷ", "ꮸ", "ꮹ", "ꮺ", "ꮻ", "ꮼ",
     "ꮽ", "ꮾ", "ꮿ"}

\* the case-ignorable characters: apostrophe, full stop, colon, circumflex,
\* soft hyphen, the combining marks, the modifier letters
CaseIgnorable ==
    {"'", ".", ":", "^", "¨", "­", "¯", "´", "·", "¸", "ʰ", "ʱ", "ʲ",
     "ʳ", "ʴ", "ʵ", "ʶ", "ʷ", "ʸ", "ʹ", "ʺ", "ʻ", "ʼ", "ʽ", "ʾ", "ʿ",
     "ˀ", "ˁ", "˂", "˃", "˄", "˅", "ˆ", "ˇ", "ˈ", "ˉ", "ˊ", "ˋ", "ˌ",
     "ˍ", "ˎ", "ˏ", "ː", "ˑ", "˒", "˓", "˔", "˕", "˖", "˗", "˘", "˙",
     "˚", "˛", "˜", "˝", "˞", "˟", "ˠ", "ˡ", "ˢ", "ˣ", "ˤ", "˥", "˦",
     "˧", "˨", "˩", "˪", "˫", "ˬ", "˭", "ˮ", "˯", "˰", "˱", "˲", "˳",
     "˴", "˵", "˶", "˷", "˸", "˹", "˺", "˻", "˼", "˽", "˾", "˿", "΄",
     "΅", "·", "҃", "҄", "҅", "҆", "҇", "҈", "҉", "֑", "֒", "֓", "֔",
     "֕", "֖", "֗", "֘", "֙", "֚", "֛", "֜", "֝", "֞", "֟", "֠", "֡",
     "֢", "֣", "֤", "֥", "֦", "֧", "֨", "֩", "֪", "֫", "֬", "֭", "֮",
     "֯", "ְ", "ֱ", "ֲ", "ֳ", "ִ", "ֵ", "ֶ", "ַ", "ָ", "ֹ", "ֺ", "ֻ",
     "ּ", "ֽ", "ֿ", "ׁ", "ׂ", "ׄ", "ׅ", "ׇ", "״", "ۖ", "ۗ", "ۘ", "ۙ",
     "ۚ", "ۛ", "ۜ", "۝", "۟", "۠", "ۡ", "ۢ", "ۣ", "ۤ", "ۥ", "ۦ", "ۧ",
     "ۨ", "۪", "۫", "۬", "ۭ", "ަ", "ާ", "ި", "ީ", "ު", "ޫ", "ެ", "ޭ",
     "ޮ", "ޯ", "ް", "߫", "߬", "߭", "߮", "߯", "߰", "߱", "߲", "߳", "ߴ",
     "ߵ", "ߺ", "߽", "࢈", "࢐", "࢑", "࢘", "࢙", "࢚", "࢛", "࢜", "࢝", "࢞",
     "࢟", "ࣉ", "࣊", "࣋", "࣌", "࣍", "࣎", "࣏", "࣐", "࣑", "࣒", "࣓", "ࣔ",
     "ࣕ", "ࣖ", "ࣗ", "ࣘ", "ࣙ", "ࣚ", "ࣛ", "ࣜ", "ࣝ", "ࣞ", "ࣟ", "࣠", "࣡",
     "࣢", "ࣣ", "ࣤ", "ࣥ", "ࣦ", "ࣧ", "ࣨ", "ࣩ", "࣪", "࣫", "࣬", "࣭", "࣮",
     "࣯", "ࣰ", "ࣱ", "ࣲ", "ࣳ", "ࣴ", "ࣵ", "ࣶ", "ࣷ", "ࣸ", "ࣹ", "ࣺ", "ࣻ",
     "ࣼ", "ࣽ", "ࣾ", "ࣿ", "ঁ", "়", "ু", "ূ", "ৃ", "ৄ", "্", "ৢ", "ৣ",
     "৾", "ઁ", "ં", "઼", "ુ", "ૂ", "ૃ", "ૄ", "ૅ", "ે", "ૈ", "્", "ૢ",
     "ૣ", "ૺ", "ૻ", "ૼ", "૽", "૾", "૿", "ஂ", "ீ", "்", "ಁ", "಼", "ಿ",
     "ೆ", "ೌ", "್", "ೢ", "ೣ", "ඁ", "්", "ි", "ී", "ු", "ූ", "ັ", "ິ",
     "ີ", "ຶ", "ື", "ຸ", "ູ", "຺", "ົ", "ຼ", "ໆ", "່", "້", "໊", "໋",
     "໌", "ໍ", "ྀ", "ཱྀ", "ྂ", "ྃ", "྄", "྆", "྇", "ྍ", "ྎ", "ྏ", "ྐ",
     "ྑ", "ྒ", "ྒྷ", "ྔ", "ྕ", "ྖ", "ྗ", "ྙ", "ྚ", "ྛ", "ྜ", "ྜྷ", "ྞ",
     "ྟ", "ྠ", "ྡ", "ྡྷ", "ྣ", "ྤ", "ྥ", "ྦ", "ྦྷ", "ྨ", "ྩ", "ྪ", "ྫ",
     "ྫྷ", "ྭ", "ྮ", "ྯ", "ྰ", "ྱ", "ྲ", "ླ", "ྴ", "ྵ", "ྶ", "ྷ", "ྸ",
     "ྐྵ", "ྺ", "ྻ", "ྼ", "࿆", "ႂ", "ႅ", "ႆ", "ႍ", "ႝ", "ჼ", "឴", "឵",
     "ិ", "ី", "ឹ", "ឺ", "ុ", "ូ", "ួ", "ំ", "៉", "៊", "់", "៌", "៍",
     "៎", "៏", "័", "៑", "្", "៓", "ៗ", "៝", "ᢅ", "ᢆ", "ᢩ", "ᪧ", "᪰",
     "᪱", "᪲", "᪳", "᪴", "᪵", "᪶", "᪷", "᪸", "᪹", "᪺", "᪻", "᪼", "᪽",
     "᪾", "ᪿ", "ᫀ", "᫁", "᫂", "᫃", "᫄", "᫅", "᫆", "᫇", "᫈", "᫉", "᫊",
     "᫋", "ᫌ", "ᫍ", "ᫎ", "ᮀ", "ᮁ", "ᮢ", "ᮣ", "ᮤ", "ᮥ", "ᮨ", "ᮩ", "᮫",
     "ᮬ", "ᮭ", "᯦", "ᯨ", "ᯩ", "ᯭ", "ᯯ", "ᯰ", "ᯱ", "᳐", "᳑", "᳒", "᳔",
     "᳕", "᳖", "᳗", "᳘", "᳙", "᳚", "᳛", "᳜", "᳝", "᳞", "᳟", "᳠", "᳢",
     "᳣", "᳤", "᳥", "᳦", "᳧", "᳨", "᳭", "᳴", "᳸", "᳹", "ᶛ", "ᶜ", "ᶝ",
     "ᶞ", "ᶟ", "ᶠ", "ᶡ", "ᶢ", "ᶣ", "ᶤ", "ᶥ", "ᶦ", "ᶧ", "ᶨ", "ᶩ", "ᶪ",
     "ᶫ", "ᶬ", "ᶭ", "ᶮ", "ᶯ", "ᶰ", "ᶱ", "ᶲ", "ᶳ", "ᶴ", "ᶵ", "ᶶ", "ᶷ",
     "ᶸ", "ᶹ", "ᶺ", "ᶻ", "ᶼ", "ᶽ", "ᶾ", "ᶿ", "᷀", "᷁", "᷂", "᷃", "᷄",
     "᷅", "᷆", "᷇", "᷈", "᷉", "᷊", "᷋", "᷌", "᷍", "᷎", "᷏", "᷐", "᷑",
     "᷒", "ᷓ", "ᷔ", "ᷕ", "ᷖ", "ᷗ", "ᷘ", "ᷙ", "ᷚ", "ᷛ", "ᷜ", "ᷝ", "ᷞ",
     "ᷟ", "ᷠ", "ᷡ", "ᷢ", "ᷣ", "ᷤ", "ᷥ", "ᷦ", "ᷧ", "ᷨ", "ᷩ", "ᷪ", "ᷫ",
     "ᷬ", "ᷭ", "ᷮ", "ᷯ", "ᷰ", "ᷱ", "ᷲ", "ᷳ", "ᷴ", "᷵", "᷶", "᷷", "᷸",
     "᷹", "᷺", "᷻", "᷼", "᷽", "᷾", "᷿", "᾽", "᾿", "῀", "῁", "῍", "῎",
     "῏", "῝", "῞", "῟", "῭", "΅", "`", "´", "῾", "ₐ", "ₑ", "ₒ", "ₓ",
     "ₔ", "ₕ", "ₖ", "ₗ", "ₘ", "ₙ", "ₚ", "ₛ", "ₜ", "⃐", "⃑", "⃒", "⃓",
     "⃔", "⃕", "⃖", "⃗", "⃘", "⃙", "⃚", "⃛", "⃜", "⃝", "⃞", "⃟", "⃠",
     "⃡", "⃢", "⃣", "⃤", "⃥", "⃦", "⃧", "⃨", "⃩", "⃪", "⃫", "⃬", "⃭",
     "⃮", "⃯", "⃰", "⳯", "⳰", "⳱", "ⷠ", "ⷡ", "ⷢ", "ⷣ", "ⷤ", "ⷥ", "ⷦ",
     "ⷧ", "ⷨ", "ⷩ", "ⷪ", "ⷫ", "ⷬ", "ⷭ", "ⷮ", "ⷯ", "ⷰ", "ⷱ", "ⷲ", "ⷳ",
     "ⷴ", "ⷵ", "ⷶ", "ⷷ", "ⷸ", "ⷹ", "ⷺ", "ⷻ", "ⷼ", "ⷽ", "ⷾ", "ⷿ", "゙",
     "゚", "゛", "゜", "ゝ", "ゞ", "ー", "ヽ", "ヾ", "ꓸ", "ꓹ", "ꓺ", "ꓻ", "ꓼ",
     "ꓽ", "ꚜ", "ꚝ", "ꚞ", "ꚟ", "꛰", "꛱", "ꞈ", "꞉", "꞊", "ꟲ", "ꟳ", "ꟴ",
     "ꟸ", "ꟹ", "꣄", "ꣅ", "꣠", "꣡", "꣢", "꣣", "꣤", "꣥", "꣦", "꣧", "꣨",
     "꣩", "꣪", "꣫", "꣬", "꣭", "꣮", "꣯", "꣰", "꣱", "ꣿ", "ꦀ", "ꦁ", "ꦂ",
     "꦳", "ꦶ", "ꦷ", "ꦸ", "ꦹ", "ꦼ", "ꦽ", "ꧏ", "ꧥ", "ꧦ", "ꪰ", "ꪲ", "ꪳ",
     "ꪴ", "ꪷ", "ꪸ", "ꪾ", "꪿", "꫁", "ꫝ", "ꫬ", "ꫭ", "ꫳ", "ꫴ", "꫶", "ꯥ",
     "ꯨ", "꯭", "﮲", "﮳", "﮴", "﮵", "﮶", "﮷", "﮸", "﮹", "﮺", "﮻", "﮼",
     "﮽", "﮾", "﮿", "﯀", "﯁", "﯂", "﻿", "ﾞ", "ﾟ", "￣", "￹", "￺", "￻"}

\* a cased letter, asked of a character that is not case-ignorable
is_cased(c) == c \in Cased \/ c \in SmallCased

\* str.lower() of one character that is not a capital sigma at the end of a
\* word
lower_char(c) == IF c \in Cased THEN ToLower[c] ELSE c

\* the capital sigma, and the small sigma that ends a word
Sigma == "Σ"
FinalSigma == "ς"

\* the capital sigma s[i] ends a word: skipping case-ignorable characters, a
\* cased letter stands before it and none after it
final_sigma(s, i) ==
    LET before == {j \in 1..(i - 1) : s[j] \notin CaseIgnorable}
        after == {j \in (i + 1)..Len(s) : s[j] \notin CaseIgnorable}
    IN /\ before # {}
       /\ is_cased(s[CHOOSE j \in before : \A k \in before : k <= j])
       /\ \/ after = {}
          \/ ~is_cased(s[CHOOSE j \in after : \A k \in after : j <= k])

\* str.lower()
lower(s) ==
    [i \in 1..Len(s) |->
        IF s[i] = Sigma /\ final_sigma(s, i) THEN FinalSigma
        ELSE lower_char(s[i])]

\* s[n:]
Drop(s, n) == SubSeq(s, n + 1, Len(s))

\* s[:n]
Take(s, n) == SubSeq(s, 1, Min(n, Len(s)))

\* s[-n:] for 1 <= n
LastN(s, n) == SubSeq(s, Max(Len(s) - n, 0) + 1, Len(s))

RECURSIVE lstrip(_, _)
lstrip(s, cs) ==
    IF s = <<>> THEN <<>>
    ELSE IF Head(s) \in cs THEN lstrip(Tail(s), cs)
    ELSE s

RECURSIVE rstrip(_, _)
rstrip(s, cs) ==
    IF s = <<>> THEN <<>>
    ELSE IF s[Len(s)] \in cs THEN rstrip(SubSeq(s, 1, Len(s) - 1), cs)
    ELSE s

\* str.strip(chars); str.strip() is strip(s, Whitespace)
strip(s, cs) == rstrip(lstrip(s, cs), cs)

\* position of the first character of s that is in cs, 0 when there is none
RECURSIVE find_first(_, _)
find_first(s, cs) ==
    IF s = <<>> THEN 0
    ELSE IF Head(s) \in cs THEN 1
    ELSE LET r == find_first(Tail(s), cs) IN IF r = 0 THEN 0 ELSE r + 1

\* re.sub(r'\s+', ' ', s)
RECURSIVE sub_whitespace(_)
sub_whitespace(s) ==
    IF s = <<>> THEN <<>>
    ELSE IF Head(s) \in Whitespace
         THEN <<" ">> \o sub_whitespace(lstrip(Tail(s), Whitespace))
         ELSE <<Head(s)>> \o sub_whitespace(Tail(s))

\* re.sub(r'\[.*?\]', '', s) and re.sub(r'\(.*?\)', '', s): the leftmost
\* opening character that has a closing character after it on the same line
\* is removed together with everything up to the nearest closing character
RECURSIVE sub_annotation(_, _, _)
sub_annotation(s, open, close) ==
    IF s = <<>> THEN <<>>
    ELSE LET rest == Tail(s)
             stop == find_first(rest, {close, "\n"})
         IN IF Head(s) = open /\ stop > 0 /\ rest[stop] = close
            THEN sub_annotation(Drop(rest, stop), open, close)
            ELSE <<Head(s)>> \o sub_annotation(rest, open, close)

\* str.split()
RECURSIVE split(_)
split(s) ==
    LET t == lstrip(s, Whitespace)
    IN IF t = <<>> THEN <<>>
       ELSE LET stop == find_first(t, Whitespace)
                n == IF stop = 0 THEN Len(t) ELSE stop - 1
            IN <<Take(t, n)>> \o split(Drop(t, n))

\* " ".join(words)
RECURSIVE join(_)
join(words) ==
    IF words = <<>> THEN <<>>
    ELSE IF Len(words) = 1 THEN words[1]
    ELSE words[1] \o <<" ">> \o join(Tail(words))

(***************************************************************************)
(* TextMerger                                                              *)
(***************************************************************************)

\* the variations table of words_similar: <<standard, variant>>
variations == {
    << <<"a", "n", "d">>, <<"&">> >>,
    << <<"a", "n", "d">>, <<"n">> >>,
    << <<"t", "o">>, <<"2">> >>,
    << <<"t", "o">>, <<"t", "o", "o">> >>,
    << <<"f", "o", "r">>, <<"4">> >>,
    << <<"f", "o", "r">>, <<"f", "o", "r", "e">> >>,
    << <<"y", "o", "u">>, <<"u">> >>,
    << <<"a", "r", "e">>, <<"r">> >>,
    << <<"s", "e", "e">>, <<"c">> >>,
    << <<"b", "e">>, <<"b">> >> }

\* TextMerger.clean_text
clean_text(text) ==
    LET collapsed == sub_whitespace(strip(text, Whitespace))
        unbracketed == sub_annotation(collapsed, "[", "]")
        unparenthesized == sub_annotation(unbracketed, "(", ")")
    IN strip(unparenthesized, Whitespace)

\* TextMerger.simple_similarity as the fraction <<common, max(len)>>;
\* <<0, 1>> stands for the 0.0 returned on an empty argument
simple_similarity(s1, s2) ==
    IF s1 = <<>> \/ s2 = <<>> THEN <<0, 1>>
    ELSE LET common == Cardinality({i \in 1..Len(s1) :
                                        \E j \in 1..Len(s2) : s2[j] = s1[i]})
         IN <<common, Max(Len(s1), Len(s2))>>

\* words_similar without the table of variations
words_similar_without_variations(word1, word2) ==
    LET w1 == strip(lower(word1), Punctuation)
        w2 == strip(lower(word2), Punctuation)
        sim == simple_similarity(w1, w2)
    IN IF w1 = w2 THEN TRUE
       ELSE IF Len(w1) <= 3 \/ Len(w2) <= 3 THEN w1 = w2
       ELSE 5 * sim[1] > 4 * sim[2]

\* TextMerger.words_similar
words_similar(word1, word2) ==
    LET w1 == strip(lower(word1), Punctuation)
        w2 == strip(lower(word2), Punctuation)
        sim == simple_similarity(w1, w2)
    IN IF w1 = w2 THEN TRUE
       ELSE IF <<w1, w2>> \in variations \/ <<w2, w1>> \in variations THEN TRUE
       ELSE IF Len(w1) <= 3 \/ Len(w2) <= 3 THEN w1 = w2
       ELSE 5 * sim[1] > 4 * sim[2]          \* similarity > 0.8

\* what sequences_match gives for two empty windows: matches / len(seq1)
\* divides by zero and the exception leaves the method
ZeroDivisionError == "ZeroDivisionError"

\* sequences_match with a strict comparison: similarity > min_similarity
sequences_match_strict(seq1, seq2, min_similarity) ==
    IF Len(seq1) # Len(seq2) THEN FALSE
    ELSE IF Len(seq1) = 0 THEN ZeroDivisionError
    ELSE LET matches == Cardinality({i \in 1..Len(seq1) :
                                         words_similar(seq1[i], seq2[i])})
         IN 10 * matches > min_similarity * Len(seq1)

\* sequences_match with the comparison turned around: similarity <= min_similarity
sequences_match_inverted(seq1, seq2, min_similarity) ==
    IF Len(seq1) # Len(seq2) THEN FALSE
    ELSE IF Len(seq1) = 0 THEN ZeroDivisionError
    ELSE LET matches == Cardinality({i \in 1..Len(seq1) :
                                         words_similar(seq1[i], seq2[i])})
         IN 10 * matches <= min_similarity * Len(seq1)

\* TextMerger.sequences_match; min_similarity is given in tenths.  The
\* result is TRUE, FALSE or, for two empty windows, ZeroDivisionError
sequences_match(seq1, seq2, min_similarity) ==
    IF Len(seq1) # Len(seq2) THEN FALSE
    ELSE IF Len(seq1) = 0 THEN ZeroDivisionError
    ELSE LET matches == Cardinality({i \in 1..Len(seq1) :
                                         words_similar(seq1[i], seq2[i])})
         IN 10 * matches >= min_similarity * Len(seq1)

\* the cap on the overlap length in find_best_overlap
MaxOverlapWords == 20

\* the for loop of find_best_overlap run upwards: range(1, max_overlap + 1)
overlap_search_ascending(accumulated_words, new_words, overlap_length) ==
    LET matching == {L \in 1..overlap_length :
                        sequences_match(LastN(accumulated_words, L),
                                        Take(new_words, L), 7)}
    IN IF matching = {} THEN 0
       ELSE CHOOSE L \in matching : \A other \in matching : L <= other

\* the for loop of find_best_overlap, from overlap_length down to 1
RECURSIVE overlap_search(_, _, _)
overlap_search(accumulated_words, new_words, overlap_length) ==
    IF overlap_length <= 0 THEN 0
    ELSE IF sequences_match(LastN(accumulated_words, overlap_length),
                            Take(new_words, overlap_length), 7)
         THEN overlap_length
         ELSE overlap_search(accumulated_words, new_words, overlap_length - 1)

\* find_best_overlap with the search started one short: range(max_overlap - 1, 0, -1)
find_best_overlap_one_short(accumulated_words, new_words) ==
    LET max_overlap == Min(Min(Len(accumulated_words), Len(new_words)),
                           MaxOverlapWords)
    IN overlap_search(accumulated_words, new_words, max_overlap - 1)

\* TextMerger.find_best_overlap
find_best_overlap(accumulated_words, new_words) ==
    LET max_overlap == Min(Min(Len(accumulated_words), Len(new_words)),
                           MaxOverlapWords)
    IN overlap_search(accumulated_words, new_words, max_overlap)

\* TextMerger.remove_overlap
remove_overlap(accumulated, new_text) ==
    LET words_accumulated == split(accumulated)
        words_new == split(new_text)
        best_overlap_length == find_best_overlap(words_accumulated, words_new)
    IN IF Len(words_accumulated) = 0 \/ Len(words_new) = 0 THEN new_text
       ELSE IF best_overlap_length > 0
            THEN join(Drop(words_new, best_overlap_length))
            ELSE new_text

\* the state of a TextMerger right after __init__
EmptyMerger == [accumulated_text |-> <<>>, processed_chunks |-> <<>>, ret |-> <<>>]

\* the guard with the strip() forgotten: if not new_text
is_blank_unstripped(new_text) == new_text = <<>>

\* the guard of merge_transcription: not new_text.strip()
is_blank(new_text) == strip(new_text, Whitespace) = <<>>

\* the append without its test: a space is added for an empty unique_text too
append_unique_always(accumulated, unique_text) ==
    accumulated \o <<" ">> \o unique_text

\* the append with the operands in the wrong order
append_unique_in_front(accumulated, unique_text) ==
    IF unique_text # <<>> THEN unique_text \o <<" ">> \o accumulated
    ELSE accumulated

\* if unique_text: self.accumulated_text += " " + unique_text
append_unique(accumulated, unique_text) ==
    IF unique_text # <<>> THEN accumulated \o <<" ">> \o unique_text
    ELSE accumulated

\* merge_transcription turning away a chunk_info it has already recorded
merge_transcription_once_per_chunk(m, new_text, chunk_info) ==
    IF is_blank(new_text)
          \/ \E k \in 1..Len(m.processed_chunks) :
                m.processed_chunks[k].chunk_info = chunk_info
    THEN [m EXCEPT !.ret = <<>>]
    ELSE LET cleaned == clean_text(new_text)
             first == m.accumulated_text = <<>>
             unique_text == IF first THEN cleaned
                            ELSE remove_overlap(m.accumulated_text, cleaned)
             accumulated == IF first THEN cleaned
                            ELSE append_unique(m.accumulated_text, unique_text)
         IN [accumulated_text |-> accumulated,
             processed_chunks |-> Append(m.processed_chunks,
                 [chunk_info |-> chunk_info,
                  original_text |-> cleaned,
                  unique_text |-> unique_text,
                  accumulated_length |-> Len(accumulated)]),
             ret |-> unique_text]

\* merge_transcription recording the length before the append
merge_transcription_stale_length(m, new_text, chunk_info) ==
    IF is_blank(new_text)
    THEN [m EXCEPT !.ret = <<>>]
    ELSE LET cleaned == clean_text(new_text)
             first == m.accumulated_text = <<>>
             unique_text == IF first THEN cleaned
                            ELSE remove_overlap(m.accumulated_text, cleaned)
             accumulated == IF first THEN cleaned
                            ELSE append_unique(m.accumulated_text, unique_text)
         IN [accumulated_text |-> accumulated,
             processed_chunks |-> Append(m.processed_chunks,
                 [chunk_info |-> chunk_info,
                  original_text |-> cleaned,
                  unique_text |-> unique_text,
                  accumulated_length |-> Len(m.accumulated_text)]),
             ret |-> unique_text]

\* merge_transcription with the first chunk's text never stored
merge_transcription_first_lost(m, new_text, chunk_info) ==
    IF is_blank(new_text)
    THEN [m EXCEPT !.ret = <<>>]
    ELSE LET cleaned == clean_text(new_text)
             first == m.accumulated_text = <<>>
             unique_text == IF first THEN cleaned
                            ELSE remove_overlap(m.accumulated_text, cleaned)
             accumulated == IF first THEN m.accumulated_text
                            ELSE append_unique(m.accumulated_text, unique_text)
         IN [accumulated_text |-> accumulated,
             processed_chunks |-> Append(m.processed_chunks,
                 [chunk_info |-> chunk_info,
                  original_text |-> cleaned,
                  unique_text |-> unique_text,
                  accumulated_length |-> Len(accumulated)]),
             ret |-> unique_text]

\* TextMerger.merge_transcription applied to the merger state m
merge_transcription(m, new_text, chunk_info) ==
    IF is_blank(new_text)
    THEN [m EXCEPT !.ret = <<>>]
    ELSE LET cleaned == clean_text(new_text)
             first == m.accumulated_text = <<>>
             unique_text == IF first THEN cleaned
                            ELSE remove_overlap(m.accumulated_text, cleaned)
             accumulated == IF first THEN cleaned
                            ELSE append_unique(m.accumulated_text, unique_text)
         IN [accumulated_text |-> accumulated,
             processed_chunks |-> Append(m.processed_chunks,
                 [chunk_info |-> chunk_info,
                  original_text |-> cleaned,
                  unique_text |-> unique_text,
                  accumulated_length |-> Len(accumulated)]),
             ret |-> unique_text]

\* TextMerger.get_final_transcript
get_final_transcript(m) == m.accumulated_text

\* get_processing_stats with the lengths of the recorded unique_text added up
\* for final_transcript_length
get_processing_stats_sums_records(m) ==
    LET S[i \in 0..Len(m.processed_chunks)] ==
            IF i = 0 THEN 0
            ELSE S[i - 1] + Len(m.processed_chunks[i].unique_text)
    IN [total_chunks_processed |-> Len(m.processed_chunks),
        final_transcript_length |-> S[Len(m.processed_chunks)],
        final_word_count |-> Len(split(m.accumulated_text)),
        chunks_info |-> m.processed_chunks]

\* get_processing_stats with the split() forgotten in final_word_count
get_processing_stats_counts_characters(m) ==
    [total_chunks_processed |-> Len(m.processed_chunks),
     final_transcript_length |-> Len(m.accumulated_text),
     final_word_count |-> Len(m.accumulated_text),
     chunks_info |-> m.processed_chunks]

\* TextMerger.get_processing_stats
get_processing_stats(m) ==
    [total_chunks_processed |-> Len(m.processed_chunks),
     final_transcript_length |-> Len(m.accumulated_text),
     final_word_count |-> Len(split(m.accumulated_text)),
     chunks_info |-> m.processed_chunks]

(***************************************************************************)
(* A TextMerger driven by an arbitrary caller                              *)
(***************************************************************************)

\* number of merge_transcription calls made on one TextMerger
MaxCalls == 3

TextEmpty == <<>>
TextBlank == <<" ", "\r", "", "\n">>
TextFox == <<"t", "h", "e", " ", "q", "u", "i", "c", "k", " ",
             "b", "r", "o", "w", "n", " ", "f", "o", "x">>
TextJumps == <<"b", "r", "o", "w", "n", " ", "f", "o", "x", " ",
               "j", "u", "m", "p", "s", " ", "o", "v", "e", "r">>
TextSeeYou == <<"s", "e", "e", " ", "y", "o", "u">>
TextCULater == <<"c", " ", "u", " ", "l", "a", "t", "e", "r">>
TextMusic == <<"[", "m", "u", "s", "i", "c", "]">>
TextNoted == <<"a", " ", "[", "x", "]", " ", "b">>
TextA == <<"a">>
TextListen == <<"l", "i", "s", "t", "e", "n">>
TextSilent == <<"S", "i", "l", "e", "n", "t", ".">>
\* one word more than the overlap search looks at
TextLong == join([i \in 1..(MaxOverlapWords + 1) |-> <<"a">>])

\* the chunk texts a caller hands to merge_transcription
Texts == {TextEmpty, TextBlank, TextFox, TextJumps, TextSeeYou, TextCULater,
          TextMusic, TextNoted, TextA, TextListen, TextSilent, TextLong}

\* the chunk_info the caller hands over with its next text: the number of the
\* call
ChunkInfos == {[index |-> Len(inputs)]}

\* the TextMerger held in the variables
merger == [accumulated_text |-> accumulated_text,
           processed_chunks |-> processed_chunks,
           ret |-> ret]

\* TextMerger.__init__
MergerInit ==
    /\ accumulated_text = <<>>
    /\ processed_chunks = <<>>
    /\ call = [op |-> "__init__"]
    /\ ret = <<>>
    /\ inputs = <<>>
    /\ twin = EmptyMerger

\* what process_meeting_audio has returned so far: nothing
NoResult ==
    [returned |-> FALSE, success |-> FALSE, error |-> "", transcript |-> <<>>]

\* no pipeline is running
PipelineIdle ==
    /\ pc = "idle"
    /\ config = [chunk_duration |-> 0, overlap_duration |-> 0,
                 min_speech_threshold |-> 0]
    /\ audio_len = 0
    /\ start_idx = 0
    /\ windows = <<>>
    /\ chunks = <<>>
    /\ transcription_results = <<>>
    /\ merge_pos = 0
    /\ merge_calls = <<>>
    /\ result = NoResult
    /\ model_loaded = FALSE
    /\ audio_used = 0

\* one call merge_transcription(new_text, chunk_info) on the merger
DoMerge(new_text, chunk_info) ==
    \E m \in {merge_transcription(merger, new_text, chunk_info)} :
       /\ accumulated_text' = m.accumulated_text
       /\ processed_chunks' = m.processed_chunks
       /\ ret' = m.ret
       /\ call' = [op |-> "merge_transcription", new_text |-> new_text,
                   chunk_info |-> chunk_info]
       /\ inputs' = Append(inputs, new_text)

MergeTranscription ==
    /\ Len(inputs) < MaxCalls
    /\ \E new_text \in Texts, chunk_info \in ChunkInfos :
           DoMerge(new_text, chunk_info)
    /\ UNCHANGED twin
    /\ UNCHANGED pipelineVars

GetFinalTranscript ==
    /\ call' = [op |-> "get_final_transcript"]
    /\ ret' = get_final_transcript(merger)
    /\ UNCHANGED <<accumulated_text, processed_chunks, inputs, twin>>
    /\ UNCHANGED pipelineVars

GetProcessingStats ==
    /\ call' = [op |-> "get_processing_stats"]
    /\ ret' = get_processing_stats(merger)
    /\ UNCHANGED <<accumulated_text, processed_chunks, inputs, twin>>
    /\ UNCHANGED pipelineVars

InitMerger == MergerInit /\ PipelineIdle

NextMerger ==
    \/ MergeTranscription
    \/ GetFinalTranscript
    \/ GetProcessingStats

SpecMerger == InitMerger /\ [][NextMerger]_vars

(***************************************************************************)
(* AudioProcessor: speech-gated chunking                                   *)
(*                                                                         *)
(* Sample positions are integers.  A time is the quotient                  *)
(* position / sample_rate, kept as a fraction of seconds.  The frame       *)
(* energies librosa.feature.rms returns for a window are an input: only    *)
(* their sorted order matters to np.percentile and to the count of frames  *)
(* above it, so they are given in ascending order.                         *)
(***************************************************************************)

\* AUDIO_CONFIG['sample_rate']
sample_rate == 16000

\* hop_length of librosa.feature.rms in detect_speech_activity
hop_length == 512

\* the percentile taken in detect_speech_activity
speech_percentile == 30

\* largest chunk_duration of a configuration, in seconds
MaxChunkDuration == 5

\* largest min_speech_threshold of a configuration, in seconds
MaxMinSpeech == 1

\* longest audio, in half seconds
MaxAudioHalfSeconds == 9

\* the energy levels of a frame of a two-level window: quiet and loud
EnergyLevels == {0, 1}

MaxEnergy == Cardinality(EnergyLevels) - 1

\* the shares of a window's frames, in quarters, that the quiet level can take
FrameShares == {0, 1, 2, 3, 4}

ProfileParts == Cardinality(FrameShares) - 1

\* the configurations: overlap_duration < chunk_duration
Configs ==
    {c \in [chunk_duration : 1..MaxChunkDuration,
            overlap_duration : 0..MaxChunkDuration,
            min_speech_threshold : 0..MaxMinSpeech] :
        c.overlap_duration < c.chunk_duration}

\* len(audio) of the signals
AudioLengths == {k * (sample_rate \div 2) : k \in 0..MaxAudioHalfSeconds}

\* position / self.sample_rate, the time of a sample position, as the
\* fraction <<position, sample_rate>> of seconds
time_seconds(position) == <<position, sample_rate>>

\* number of frames librosa.feature.rms yields for n samples (centered frames)
frame_count(n) == 1 + n \div hop_length

\* white noise: the energies of the frames of a window all differ
white_noise(total) == [i \in 1..total |-> i]

\* a window of two energy levels, its first frames quiet and the others loud
two_levels(total, quiet) ==
    [i \in 1..total |-> IF i <= quiet THEN 0 ELSE MaxEnergy]

\* the frame energies a window of total frames can have, in ascending order:
\* silence, one constant level, quiet and loud frames in every share, and
\* white noise
RmsProfiles(total) ==
    {two_levels(total, (total * j) \div ProfileParts) : j \in FrameShares}
      \cup {white_noise(total)}

\* the i-th smallest frame energy of rms, i counted from 0
sorted_energy(rms, i) == rms[i + 1]

\* the percentile counted from the top: np.percentile(rms, 100 - q)
percentile_from_top(rms, q) ==
    LET total == Len(rms)
        lo == ((100 - q) * (total - 1)) \div 100
        frac == ((100 - q) * (total - 1)) % 100
        hi == Min(lo + 1, total - 1)
    IN 100 * sorted_energy(rms, lo)
         + frac * (sorted_energy(rms, hi) - sorted_energy(rms, lo))

\* np.percentile(rms, q) with linear interpolation, times 100
percentile_x100(rms, q) ==
    LET total == Len(rms)
        lo == (q * (total - 1)) \div 100
        frac == (q * (total - 1)) % 100
        hi == Min(lo + 1, total - 1)
    IN 100 * sorted_energy(rms, lo)
         + frac * (sorted_energy(rms, hi) - sorted_energy(rms, lo))

\* the frames at the threshold counted as speech too
speech_frames_from_threshold(rms) ==
    LET threshold == percentile_x100(rms, speech_percentile)
    IN Cardinality({i \in 1..Len(rms) : 100 * rms[i] >= threshold})

\* np.sum(rms > speech_threshold) in detect_speech_activity
speech_frames(rms) ==
    LET threshold == percentile_x100(rms, speech_percentile)
    IN Cardinality({i \in 1..Len(rms) : 100 * rms[i] > threshold})

\* AudioProcessor.detect_speech_activity as the fraction
\* <<speech_frames * len(audio_chunk), total_frames * sample_rate>> of seconds
detect_speech_activity(rms, chunk_len) ==
    <<speech_frames(rms) * chunk_len, Len(rms) * sample_rate>>

\* the gate passing only more speech than the threshold
more_speech(speech_duration, min_speech_threshold) ==
    speech_duration[1] > min_speech_threshold * speech_duration[2]

\* speech_duration >= self.min_speech_threshold in create_chunks
enough_speech(speech_duration, min_speech_threshold) ==
    speech_duration[1] >= min_speech_threshold * speech_duration[2]

\* int(self.chunk_duration * self.sample_rate)
chunk_samples == config.chunk_duration * sample_rate

\* int(self.overlap_duration * self.sample_rate)
overlap_samples == config.overlap_duration * sample_rate

\* the step with its operands exchanged
step_samples_backwards == overlap_samples - chunk_samples

\* the step with the overlap forgotten
step_samples_without_overlap == chunk_samples

\* the step with the overlap added
step_samples_plus_overlap == chunk_samples + overlap_samples

step_samples == chunk_samples - overlap_samples

\* the break only when no signal remains
remaining_is_empty(next_start) ==
    audio_len - next_start <= 0

\* the break with the factor 0.5 forgotten
remaining_shorter_than_chunk(next_start) ==
    audio_len - next_start < chunk_samples

\* the break at the end of the loop body of create_chunks:
\* len(audio) - start_idx < chunk_samples * 0.5
remaining_too_short(next_start) ==
    2 * (audio_len - next_start) < chunk_samples

\* one iteration of the while loop of create_chunks
CreateChunksStep ==
    /\ pc = "create_chunks"
    /\ start_idx < audio_len
    /\ LET end_idx == Min(start_idx + chunk_samples, audio_len)
           window == [start_idx |-> start_idx, end_idx |-> end_idx,
                      start_time |-> time_seconds(start_idx),
                      end_time |-> time_seconds(end_idx)]
       IN \E rms \in RmsProfiles(frame_count(end_idx - start_idx)) :
            LET speech_duration ==
                    detect_speech_activity(rms, end_idx - start_idx)
                kept == enough_speech(speech_duration,
                                      config.min_speech_threshold)
            IN /\ windows' = Append(windows,
                      [window |-> window, rms |-> rms, kept |-> kept])
               /\ chunks' = IF kept THEN Append(chunks, window) ELSE chunks
    /\ start_idx' = start_idx + step_samples
    /\ pc' = IF remaining_too_short(start_idx + step_samples)
             THEN "chunked" ELSE "create_chunks"
    /\ UNCHANGED <<model_loaded, audio_used, config, audio_len,
                   transcription_results, merge_pos, merge_calls, result>>
    /\ UNCHANGED mergerVars

\* the while condition of create_chunks is false
CreateChunksExit ==
    /\ pc = "create_chunks"
    /\ start_idx >= audio_len
    /\ pc' = "chunked"
    /\ UNCHANGED <<model_loaded, audio_used, config, audio_len, start_idx,
                   windows, chunks, transcription_results, merge_pos,
                   merge_calls, result>>
    /\ UNCHANGED mergerVars

\* create_chunks is entered with the loaded audio
ChunkerInit ==
    /\ pc = "create_chunks"
    /\ start_idx = 0
    /\ windows = <<>>
    /\ chunks = <<>>
    /\ transcription_results = <<>>
    /\ merge_pos = 0
    /\ merge_calls = <<>>
    /\ result = NoResult

InitChunker ==
    /\ MergerInit
    /\ ChunkerInit
    /\ config \in Configs
    /\ audio_len \in AudioLengths
    /\ model_loaded = FALSE
    /\ audio_used = audio_len

NextChunker ==
    \/ CreateChunksStep
    \/ CreateChunksExit

SpecChunker == InitChunker /\ [][NextChunker]_vars

(***************************************************************************)
(* MeetingProcessor.process_meeting_audio                                  *)
(***************************************************************************)

\* the audio handed to one MeetingProcessor, all its calls together, in half
\* seconds
MaxPipelineHalfSeconds == 6

\* the configurations the pipeline is run with
PipelineConfigs ==
    {c \in Configs : c.chunk_duration = 2 /\ c.overlap_duration = 1}

\* len(audio_data) of the files load_and_preprocess reads
PipelineAudioLengths ==
    {k * (sample_rate \div 2) : k \in 0..MaxPipelineHalfSeconds}

\* what whisper does in one call of transcribe_chunk: whisper.load_model
\* raises (it is called only while no model is loaded), self.model.transcribe
\* raises, or it returns a text
WhisperOutcomes ==
    {[load_raises |-> TRUE, raises |-> FALSE, text |-> <<>>],
     [load_raises |-> FALSE, raises |-> TRUE, text |-> <<>>]}
    \cup {[load_raises |-> FALSE, raises |-> FALSE, text |-> t] :
             t \in {TextBlank, TextFox, TextJumps}}

\* Transcriber.transcribe_chunk on a Transcriber whose model is loaded or
\* not: the dict it returns and whether the model is loaded afterwards.
\* load_model is called outside the try, so its exception leaves
\* transcribe_chunk (raised) and no dict is returned.
transcribe_chunk(loaded, outcome) ==
    IF ~loaded /\ outcome.load_raises
    THEN [raised |-> TRUE, loaded |-> FALSE, text |-> <<>>,
          success |-> FALSE, error |-> "load_model"]
    ELSE IF outcome.raises
    THEN [raised |-> FALSE, loaded |-> TRUE, text |-> <<>>,
          success |-> FALSE, error |-> "transcribe"]
    ELSE [raised |-> FALSE, loaded |-> TRUE,
          text |-> strip(outcome.text, Whitespace),
          success |-> TRUE, error |-> "None"]

\* the entry process_meeting_audio appends to transcription_results for the
\* i-th chunk (i counted from 0 by enumerate)
transcription_result(i, chunk, transcribed) ==
    [text |-> transcribed.text,
     success |-> transcribed.success,
     error |-> transcribed.error,
     chunk_index |-> i,
     start_time |-> chunk.start_time,
     end_time |-> chunk.end_time]

\* the merge loop without its test
merge_always(transcribed) == TRUE

\* the test of the merge loop: if result['success']
merge_wanted(transcribed) == transcribed.success

\* the dict returned from the except branch of process_meeting_audio
failure(error) ==
    [returned |-> TRUE, success |-> FALSE, error |-> error,
     transcript |-> <<>>]

\* an exception that leaves process_meeting_audio: no dict is returned
raised(exception) ==
    [returned |-> FALSE, success |-> FALSE, error |-> exception,
     transcript |-> <<>>]

\* no call of process_meeting_audio is running on the MeetingProcessor
BetweenCalls == pc \in {"idle", "done"}

\* a call of process_meeting_audio that ends before create_chunks: its locals
\* hold nothing
NoChunking ==
    /\ audio_len' = 0
    /\ start_idx' = 0
    /\ windows' = <<>>
    /\ chunks' = <<>>
    /\ transcription_results' = <<>>
    /\ merge_pos' = 0
    /\ merge_calls' = <<>>

\* process_meeting_audio on a path that does not exist: FileNotFoundError is
\* raised before the try
AudioFileMissing ==
    /\ BetweenCalls
    /\ NoChunking
    /\ result' = raised("FileNotFoundError")
    /\ pc' = "done"
    /\ UNCHANGED <<config, model_loaded, audio_used>>
    /\ UNCHANGED mergerVars

\* load_and_preprocess raises (the file cannot be decoded): except branch
LoadFails ==
    /\ BetweenCalls
    /\ NoChunking
    /\ result' = failure("load_and_preprocess")
    /\ pc' = "done"
    /\ UNCHANGED <<config, model_loaded, audio_used>>
    /\ UNCHANGED mergerVars

\* process_meeting_audio is called, load_and_preprocess returns the signal and
\* create_chunks is entered; the TextMerger and the Transcriber of the
\* MeetingProcessor are the ones the calls before have left
LoadAndPreprocess ==
    /\ BetweenCalls
    /\ \E n \in PipelineAudioLengths :
          /\ audio_used + n <= MaxPipelineHalfSeconds * (sample_rate \div 2)
          /\ audio_len' = n
          /\ audio_used' = audio_used + n
    /\ start_idx' = 0
    /\ windows' = <<>>
    /\ chunks' = <<>>
    /\ transcription_results' = <<>>
    /\ merge_pos' = 0
    /\ merge_calls' = <<>>
    /\ result' = NoResult
    /\ pc' = "create_chunks"
    /\ UNCHANGED <<config, model_loaded>>
    /\ UNCHANGED mergerVars

\* create_chunks has returned: of its locals only the list it returns is
\* left
CreateChunksReturned ==
    /\ start_idx' = 0
    /\ windows' = <<>>
    /\ UNCHANGED chunks

\* the test for an empty list of chunks left out: on to the loops
NoChunksUnchecked ==
    /\ pc = "chunked"
    /\ chunks = <<>>
    /\ CreateChunksReturned
    /\ pc' = "merge"
    /\ UNCHANGED <<model_loaded, audio_used, config, audio_len,
                   transcription_results, merge_pos, merge_calls, result>>
    /\ UNCHANGED mergerVars

\* if not chunks: raise ValueError(...)
NoChunks ==
    /\ pc = "chunked"
    /\ chunks = <<>>
    /\ CreateChunksReturned
    /\ result' = failure("No processable audio chunks found (insufficient speech content)")
    /\ pc' = "done"
    /\ UNCHANGED <<model_loaded, audio_used, config, audio_len,
                   transcription_results, merge_pos, merge_calls>>
    /\ UNCHANGED mergerVars

\* chunks were found: on to step 2
StartTranscription ==
    /\ pc = "chunked"
    /\ chunks # <<>>
    /\ CreateChunksReturned
    /\ pc' = "transcribe"
    /\ UNCHANGED <<model_loaded, audio_used, config, audio_len,
                   transcription_results, merge_pos, merge_calls, result>>
    /\ UNCHANGED mergerVars

\* one iteration of the transcription loop; an exception that leaves
\* transcribe_chunk ends the call in the except branch
TranscribeChunk ==
    /\ pc = "transcribe"
    /\ LET i == Len(transcription_results)
       IN /\ i < Len(chunks)
          /\ \E outcome \in WhisperOutcomes :
                LET transcribed == transcribe_chunk(model_loaded, outcome)
                IN /\ model_loaded' = transcribed.loaded
                   /\ IF transcribed.raised
                      THEN /\ result' = failure(transcribed.error)
                           /\ pc' = "done"
                           /\ UNCHANGED transcription_results
                      ELSE /\ transcription_results' =
                                Append(transcription_results,
                                    transcription_result(i, chunks[i + 1],
                                                         transcribed))
                           /\ pc' = IF i + 1 = Len(chunks)
                                    THEN "merge" ELSE "transcribe"
                           /\ UNCHANGED result
    /\ UNCHANGED <<audio_used, config, audio_len, start_idx, windows, chunks,
                   merge_pos, merge_calls>>
    /\ UNCHANGED mergerVars

\* save_chunk raises (the temporary file cannot be written): except branch
SaveChunkFails ==
    /\ pc = "transcribe"
    /\ result' = failure("save_chunk")
    /\ pc' = "done"
    /\ UNCHANGED <<model_loaded, audio_used, config, audio_len, start_idx,
                   windows, chunks, transcription_results, merge_pos,
                   merge_calls>>
    /\ UNCHANGED mergerVars

\* one iteration of the merge loop, for a result with success
MergeChunk ==
    /\ pc = "merge"
    /\ merge_pos < Len(transcription_results)
    /\ LET transcribed == transcription_results[merge_pos + 1]
           chunk_info == [index |-> transcribed.chunk_index,
                          start_time |-> transcribed.start_time,
                          end_time |-> transcribed.end_time]
       IN /\ merge_wanted(transcribed)
          /\ DoMerge(transcribed.text, chunk_info)
          /\ merge_calls' = Append(merge_calls, chunk_info)
    /\ UNCHANGED twin
    /\ merge_pos' = merge_pos + 1
    /\ UNCHANGED <<pc, model_loaded, audio_used, config, audio_len,
                   start_idx, windows, chunks, transcription_results, result>>

\* one iteration of the merge loop, for a result without success
SkipFailedChunk ==
    /\ pc = "merge"
    /\ merge_pos < Len(transcription_results)
    /\ ~merge_wanted(transcription_results[merge_pos + 1])
    /\ merge_pos' = merge_pos + 1
    /\ UNCHANGED <<pc, model_loaded, audio_used, config, audio_len,
                   start_idx, windows, chunks, transcription_results,
                   merge_calls, result>>
    /\ UNCHANGED mergerVars

\* the merge loop is over: final transcript, stats, analysis, documents, return
\* (analyze_meeting and generate_all_documents catch what they raise)
Finish ==
    /\ pc = "merge"
    /\ merge_pos = Len(transcription_results)
    /\ call' = [op |-> "get_processing_stats"]
    /\ ret' = get_processing_stats(merger)
    /\ result' = [returned |-> TRUE, success |-> TRUE, error |-> "None",
                  transcript |-> get_final_transcript(merger)]
    /\ pc' = "done"
    /\ UNCHANGED <<accumulated_text, processed_chunks, inputs, twin>>
    /\ UNCHANGED <<model_loaded, audio_used, config, audio_len, start_idx,
                   windows, chunks, transcription_results, merge_pos,
                   merge_calls>>

\* MeetingProcessor.__init__: a new TextMerger, a Transcriber without a model,
\* no call of process_meeting_audio made yet
InitPipeline ==
    /\ MergerInit
    /\ pc = "idle"
    /\ config \in PipelineConfigs
    /\ audio_len = 0
    /\ start_idx = 0
    /\ windows = <<>>
    /\ chunks = <<>>
    /\ transcription_results = <<>>
    /\ merge_pos = 0
    /\ merge_calls = <<>>
    /\ result = NoResult
    /\ model_loaded = FALSE
    /\ audio_used = 0

NextPipeline ==
    \/ AudioFileMissing
    \/ LoadFails
    \/ LoadAndPreprocess
    \/ CreateChunksStep
    \/ CreateChunksExit
    \/ NoChunks
    \/ StartTranscription
    \/ TranscribeChunk
    \/ SaveChunkFails
    \/ MergeChunk
    \/ SkipFailedChunk
    \/ Finish

SpecPipeline == InitPipeline /\ [][NextPipeline]_vars

(***************************************************************************)
(* Properties of the TextMerger                                            *)
(***************************************************************************)

IsPrefix(s, t) == Len(s) <= Len(t) /\ SubSeq(t, 1, Len(s)) = s

IsSuffix(s, t) == Len(s) <= Len(t) /\ LastN(t, Len(s)) = s

\* the step just taken is a merge_transcription call
MergeStep == call'.op = "merge_transcription" /\ inputs' # inputs

\* the unique_text of every record, in call order
UniqueTexts(records) == [i \in 1..Len(records) |-> records[i].unique_text]

NonEmpty(s) == s # <<>>

RECURSIVE SumLen(_)
SumLen(texts) ==
    IF texts = <<>> THEN 0 ELSE Len(Head(texts)) + SumLen(Tail(texts))

RECURSIVE SumWords(_)
SumWords(texts) ==
    IF texts = <<>> THEN 0 ELSE Len(split(Head(texts))) + SumWords(Tail(texts))

TextJumpsOver == <<"j", "u", "m", "p", "s", " ", "o", "v", "e", "r">>
TextFoxJumpsOver == TextFox \o <<" ">> \o TextJumpsOver

\* C1: accumulated_text only grows by appending (its value before a step is a
\* prefix of its value after the step), and it always equals the non-empty
\* unique contributions recorded so far, joined in call order by single
\* spaces, each exactly once.
C1_AppendOnly ==
    /\ [](accumulated_text
            = join(SelectSeq(UniqueTexts(processed_chunks), NonEmpty)))
    /\ [][IsPrefix(accumulated_text, accumulated_text')]_vars

C1_Witness ==
    /\ Len(processed_chunks) = 3
    /\ processed_chunks[1].unique_text = TextFox
    /\ processed_chunks[2].unique_text = TextJumpsOver
    /\ processed_chunks[3].unique_text = TextSeeYou
    /\ accumulated_text = TextFoxJumpsOver \o <<" ">> \o TextSeeYou

\* the step just taken is a merge_transcription call whose new_text is not
\* blank, made on a merger that already holds text
OverlapStep ==
    /\ MergeStep
    /\ strip(call'.new_text, Whitespace) # <<>>
    /\ accumulated_text # <<>>

\* C2: the overlap a merge detects is the largest L in
\* 1..min(len(accumulated_words), len(new_words), 20) whose last L accumulated
\* words match the first L new words at threshold 0.7, and 0 when no such L
\* matches; it is never above 20 or above either word count, and the words
\* from that index on are what the merge contributes.
C2_LargestOverlap ==
    [][OverlapStep =>
        \A accW \in {split(accumulated_text)},
           newW \in {split(clean_text(call'.new_text))} :
          \A limit \in {Min(Min(Len(accW), Len(newW)), 20)},
             r \in {find_best_overlap(accW, newW)} :
            /\ r \in 0..limit
            /\ r > 0 => sequences_match(LastN(accW, r), Take(newW, r), 7)
            /\ \A L \in (r + 1)..limit :
                  ~sequences_match(LastN(accW, L), Take(newW, L), 7)
            /\ (r > 0 /\ newW # <<>>) => ret' = join(Drop(newW, r))
            /\ (r = 0 /\ newW # <<>>) => ret' = clean_text(call'.new_text)
    ]_vars

\* the 21-word text merged twice: the search is capped at 20 words
C2_Witness ==
    /\ inputs = <<TextLong, TextLong>>
    /\ call.op = "merge_transcription"
    /\ ret = <<"a">>
    /\ Len(split(accumulated_text)) = 22

\* C3: when the first k words of the (cleaned) new text are exactly the last k
\* words of the accumulated transcript, 1 <= k <= 20, the detected overlap is
\* at least k and the contribution is the new words from the detected index
\* on, appended after a single space; with a transcript ending in "the quick
\* brown fox" and new text "brown fox jumps over" the overlap is exactly 2,
\* the contribution "jumps over" and the transcript ends "the quick brown fox
\* jumps over".
C3_RepeatedWordsDropped ==
    [][OverlapStep =>
        \A accW \in {split(accumulated_text)},
           newW \in {split(clean_text(call'.new_text))} :
          \A r \in {find_best_overlap(accW, newW)} :
            /\ \A k \in 1..20 :
                 (/\ k <= Len(accW)
                  /\ k <= Len(newW)
                  /\ LastN(accW, k) = Take(newW, k))
                 => /\ r >= k
                    /\ ret' = join(Drop(newW, r))
                    /\ accumulated_text' =
                         IF ret' = <<>> THEN accumulated_text
                         ELSE accumulated_text \o <<" ">> \o ret'
            /\ (IsSuffix(TextFox, accumulated_text)
                  /\ clean_text(call'.new_text) = TextJumps)
                 => /\ r = 2
                    /\ ret' = TextJumpsOver
                    /\ IsSuffix(TextFoxJumpsOver, accumulated_text')
    ]_vars

C3_Witness ==
    /\ inputs = <<TextFox, TextJumps>>
    /\ call.op = "merge_transcription"
    /\ ret = TextJumpsOver
    /\ accumulated_text = TextFoxJumpsOver

\* the set of words of a text
WordSet(text) == {split(text)[i] : i \in 1..Len(split(text))}

\* no word of a is judged similar to a word of b
NoSimilarWords(a, b) ==
    \A i \in 1..Len(split(a)), j \in 1..Len(split(b)) :
        ~words_similar(split(a)[i], split(b)[j])

\* C4 as stated: two non-empty chunk texts that share no word, merged into an
\* empty merger, give chunk1_text + " " + chunk2_text (read in favour of the
\* statement: a non-empty text is one that carries at least one word).
C4_Original ==
    (/\ Len(inputs) = 2
     /\ split(inputs[1]) # <<>>
     /\ split(inputs[2]) # <<>>
     /\ WordSet(inputs[1]) \cap WordSet(inputs[2]) = {})
    => accumulated_text = inputs[1] \o <<" ">> \o inputs[2]

\* C4 amended: two chunk texts whose cleaned forms are non-empty and in which
\* no word of the first is judged similar (words_similar) to a word of the
\* second, merged into an empty merger, give clean_text(chunk1) + " " +
\* clean_text(chunk2).
C4_DisjointConcatenated ==
    (/\ Len(inputs) = 2
     /\ clean_text(inputs[1]) # <<>>
     /\ clean_text(inputs[2]) # <<>>
     /\ NoSimilarWords(clean_text(inputs[1]), clean_text(inputs[2])))
    => accumulated_text
         = clean_text(inputs[1]) \o <<" ">> \o clean_text(inputs[2])

C4_Witness ==
    /\ inputs = <<TextNoted, TextListen>>
    /\ accumulated_text = <<"a", " ", " ", "b", " ">> \o TextListen
    /\ ret = TextListen

\* C5: merge_transcription with an empty or whitespace-only new_text returns
\* the empty string and changes neither accumulated_text nor processed_chunks,
\* whatever the state of the merger.
C5_BlankIsNoOp ==
    [][(MergeStep /\ strip(call'.new_text, Whitespace) = <<>>)
        => /\ ret' = <<>>
           /\ accumulated_text' = accumulated_text
           /\ processed_chunks' = processed_chunks
    ]_vars

C5_Witness ==
    /\ inputs = <<TextFox, TextBlank>>
    /\ call.op = "merge_transcription"
    /\ call.new_text = TextBlank
    /\ ret = <<>>
    /\ accumulated_text = TextFox
    /\ Len(processed_chunks) = 1

\* the last call was get_processing_stats, whose result is in ret
StatsReported == call.op = "get_processing_stats"

\* C6 as stated: the character lengths of the unique_text of all records add
\* up to the final_transcript_length that get_processing_stats reports.
C6_Original ==
    StatsReported =>
        ret.final_transcript_length = SumLen(UniqueTexts(ret.chunks_info))

\* C6 amended: the character lengths of the unique_text of all records, plus
\* one separating space for every non-empty unique_text after the first
\* non-empty one, add up to the final_transcript_length that
\* get_processing_stats reports.
C6_LengthWithSeparators ==
    StatsReported =>
        LET uniques == UniqueTexts(ret.chunks_info)
            contributions == Len(SelectSeq(uniques, NonEmpty))
        IN ret.final_transcript_length
             = SumLen(uniques) + Max(contributions - 1, 0)

C6_Witness ==
    /\ StatsReported
    /\ inputs = <<TextMusic, TextSeeYou, TextCULater>>
    /\ ret.total_chunks_processed = 3
    /\ ret.final_transcript_length = 13

\* C7: the final_word_count that get_processing_stats reports is the number of
\* whitespace-separated words of get_final_transcript(), and it is the total
\* number of words of the unique_text of all records.
C7_WordCount ==
    StatsReported =>
        /\ ret.final_word_count = Len(split(get_final_transcript(merger)))
        /\ ret.final_word_count = SumWords(UniqueTexts(ret.chunks_info))

C7_Witness ==
    /\ StatsReported
    /\ inputs = <<TextNoted, TextFox, TextJumps>>
    /\ ret.final_word_count = 8

\* the merger after merging the given texts, in order, into an empty merger
RECURSIVE MergeAll(_, _)
MergeAll(m, texts) ==
    IF texts = <<>> THEN m
    ELSE MergeAll(merge_transcription(m, Head(texts), [index |-> 0]),
                  Tail(texts))

\* C9 as stated: for two different chunk texts, merging them in one order
\* gives a different final transcript than merging them in the other order
\* (read in favour of the statement: both texts carry words and their word
\* sequences differ).
C9_Original ==
    (/\ Len(inputs) = 2
     /\ split(inputs[1]) # <<>>
     /\ split(inputs[2]) # <<>>
     /\ split(inputs[1]) # split(inputs[2]))
    => get_final_transcript(merger)
         # get_final_transcript(
               MergeAll(EmptyMerger, <<inputs[2], inputs[1]>>))

\* C9 amended: for two chunk texts whose cleaned forms are non-empty and in
\* which no word of either is judged similar to a word of the other, merging
\* them in one order gives a different final transcript than merging them in
\* the other order.
C9_OrderMatters ==
    (/\ Len(inputs) = 2
     /\ clean_text(inputs[1]) # <<>>
     /\ clean_text(inputs[2]) # <<>>
     /\ NoSimilarWords(clean_text(inputs[1]), clean_text(inputs[2]))
     /\ NoSimilarWords(clean_text(inputs[2]), clean_text(inputs[1])))
    => get_final_transcript(merger)
         # get_final_transcript(
               MergeAll(EmptyMerger, <<inputs[2], inputs[1]>>))

C9_Witness ==
    /\ inputs = <<TextJumps, TextSeeYou>>
    /\ call.op = "get_final_transcript"
    /\ ret = TextJumps \o <<" ">> \o TextSeeYou

(***************************************************************************)
(* Properties of the pipeline and of the chunker                           *)
(***************************************************************************)

\* the chunk_index values of a sequence of records
Indices(records, field) == [i \in 1..Len(records) |-> records[i][field]]

Succeeded(transcribed) == transcribed.success

\* C8: in every call of process_meeting_audio, every emitted window gets the
\* next dense 0-based chunk_index whether or not its transcription succeeds;
\* merge_transcription is called only for the results with success, in
\* strictly ascending chunk_index order, on the one TextMerger of the
\* MeetingProcessor, and only after every chunk has been transcribed.
\* (merge_calls and transcription_results are those of the call that is
\* running or has ended last; the texts of its merge calls are the last
\* inputs of the TextMerger.)
C8_MergeOrder ==
    /\ Len(transcription_results) <= Len(chunks)
    /\ \A i \in 1..Len(transcription_results) :
          /\ transcription_results[i].chunk_index = i - 1
          /\ transcription_results[i].start_time = chunks[i].start_time
          /\ transcription_results[i].end_time = chunks[i].end_time
    /\ Indices(merge_calls, "index")
         = Indices(SelectSeq(SubSeq(transcription_results, 1, merge_pos),
                             Succeeded), "chunk_index")
    /\ \A a, b \in 1..Len(merge_calls) :
          a < b => merge_calls[a].index < merge_calls[b].index
    /\ Len(merge_calls) <= Len(inputs)
    /\ LastN(inputs, Len(merge_calls))
         = Indices(SelectSeq(SubSeq(transcription_results, 1, merge_pos),
                             Succeeded), "text")
    /\ (merge_calls # <<>> \/ merge_pos > 0)
          => Len(transcription_results) = Len(chunks)

C8_Witness ==
    /\ pc = "done"
    /\ result.success
    /\ Len(chunks) = 3
    /\ Indices(transcription_results, "success") = <<TRUE, FALSE, TRUE>>
    /\ Indices(merge_calls, "index") = <<0, 2>>
    /\ result.transcript = TextFoxJumpsOver

\* a time in milliseconds; the signals and the windows of the model begin and
\* end on the half-second grid, where the division is exact
Millis(time) == (time[1] * 1000) \div time[2]

\* the times on the half-second grid that lie in [0, limit), in milliseconds
GridTimes(limit) ==
    {t \in {Millis(time_seconds(k * (sample_rate \div 2))) :
                k \in 0..(MaxAudioHalfSeconds + 1)} :
        t < limit}

\* time t lies in the interval [start_time, end_time) of an evaluated window
Covered(t) ==
    \E k \in 1..Len(windows) :
        /\ Millis(windows[k].window.start_time) <= t
        /\ t < Millis(windows[k].window.end_time)

\* total_duration of the signal, in milliseconds
Duration == Millis(time_seconds(audio_len))

\* end_time of the last window create_chunks evaluated, 0 when there is none
LastEnd ==
    IF windows = <<>> THEN 0
    ELSE Millis(windows[Len(windows)].window.end_time)

\* the step chunk_duration - overlap_duration of the configuration, in
\* milliseconds
StepMillis == (config.chunk_duration - config.overlap_duration) * 1000

\* [a, b) is a gap: a part of the signal that lies in no interval
\* [start_time, end_time) of an evaluated window.  (Every window boundary and
\* D lie on the half-second grid, so a stretch between two grid times is
\* uncovered exactly when the grid times in it are.)
Gap(a, b) ==
    /\ a < b
    /\ \A t \in GridTimes(b) : t >= a => ~Covered(t)

\* C10: the intervals [start_time, end_time) of the windows that
\* create_chunks evaluates (before speech filtering) cover [0, D), leaving no
\* gap larger than the step chunk_duration - overlap_duration: every stretch
\* of [0, D) that lies in no window is at most one step long.
C10_CoverageUpToStep ==
    pc = "chunked" =>
        \A a \in GridTimes(Duration) :
            \A b \in GridTimes(Duration) \cup {Duration} :
                Gap(a, b) => b - a <= StepMillis

\* two windows were evaluated; they cover the signal up to the end of the
\* second one and leave the last half second, less than the step, to no window
C10_Witness ==
    /\ pc = "chunked"
    /\ Len(windows) = 2
    /\ \A t \in GridTimes(LastEnd) : Covered(t)
    /\ Duration - LastEnd = 500
    /\ Gap(LastEnd, Duration)
    /\ StepMillis >= 1000

(***************************************************************************)
(* The grid of the candidate windows                                       *)
(***************************************************************************)

\* the samples the k-th and the (k+1)-th evaluated window share
Overlap(k) == windows[k].window.end_idx - windows[k + 1].window.start_idx

\* the k-th evaluated window is clipped at the end of the signal
Clipped(k) ==
    windows[k].window.end_idx < windows[k].window.start_idx + chunk_samples

\* the k-th evaluated window starts at (k - 1) * step and ends at
\* min(start + chunk_duration, D), in samples and in milliseconds
OnGrid(k) ==
    LET w == windows[k].window
    IN /\ w.start_idx = (k - 1) * step_samples
       /\ w.end_idx = Min(w.start_idx + chunk_samples, audio_len)
       /\ Millis(w.start_time) = (k - 1) * 1000
                           * (config.chunk_duration - config.overlap_duration)
       /\ Millis(w.end_time)
            = Min(Millis(w.start_time) + 1000 * config.chunk_duration,
                  Duration)

\* C11 as stated: when create_chunks has finished, every two consecutive
\* evaluated windows overlap by exactly overlap_duration seconds, except
\* possibly the pair that ends with the last window, and window k starts at
\* k * (chunk_duration - overlap_duration) and ends at
\* min(start + chunk_duration, D).
C11_Original ==
    pc = "chunked" =>
        /\ \A k \in 1..Len(windows) : OnGrid(k)
        /\ \A k \in 1..(Len(windows) - 2) : Overlap(k) = overlap_samples

\* C11 amended: every evaluated window lies on the grid (window k starts at
\* k * (chunk_duration - overlap_duration) and ends at
\* min(start + chunk_duration, D)); two consecutive windows overlap by exactly
\* overlap_duration seconds when the earlier one is not clipped at the end of
\* the signal, and by the shorter D - start of the later one when it is; when
\* overlap_duration is at most three quarters of chunk_duration, the only pair
\* that can overlap by less is the one that ends with the last window.
C11_OverlapUnlessClipped ==
    /\ \A k \in 1..Len(windows) : OnGrid(k)
    /\ \A k \in 1..(Len(windows) - 1) :
          /\ ~Clipped(k) => Overlap(k) = overlap_samples
          /\ Clipped(k) =>
                /\ Overlap(k) = audio_len - windows[k + 1].window.start_idx
                /\ Overlap(k) < overlap_samples
    /\ (pc = "chunked"
           /\ 4 * config.overlap_duration <= 3 * config.chunk_duration) =>
          \A k \in 1..(Len(windows) - 2) : Overlap(k) = overlap_samples

\* three windows of five seconds with four seconds of overlap cover a signal
\* of four and a half seconds: the first two, both clipped, share three and a
\* half seconds
C11_Witness ==
    /\ pc = "chunked"
    /\ Len(windows) = 3
    /\ config.chunk_duration = 5
    /\ config.overlap_duration = 4
    /\ Clipped(1)
    /\ Millis(time_seconds(Overlap(1))) = 3500

\* number of samples of the k-th evaluated window
WindowLen(k) == windows[k].window.end_idx - windows[k].window.start_idx

\* C12 as stated: create_chunks never produces a window shorter than half of
\* chunk_duration, neither among the windows it returns nor among those it
\* evaluates.
C12_Original ==
    /\ \A k \in 1..Len(chunks) :
          2 * (chunks[k].end_idx - chunks[k].start_idx) >= chunk_samples
    /\ \A k \in 1..Len(windows) : 2 * WindowLen(k) >= chunk_samples

\* C12 amended: every window after the first is at least half of
\* chunk_duration long, and the first window is shorter than that exactly when
\* the whole signal is; after a window the loop goes on only while at least
\* half a window of signal remains from the next start, and once less remains
\* it stops and no window starts in that trailing region.
C12_NoShortTrailingWindow ==
    /\ \A k \in 2..Len(windows) : 2 * WindowLen(k) >= chunk_samples
    /\ windows # <<>> =>
          /\ 2 * WindowLen(1) < chunk_samples <=> 2 * audio_len < chunk_samples
          /\ pc = "create_chunks" =>
                2 * (audio_len - start_idx) >= chunk_samples
          /\ pc = "chunked" =>
                /\ 2 * (audio_len - start_idx) < chunk_samples
                /\ \A k \in 1..Len(windows) :
                      windows[k].window.start_idx < start_idx

\* the loop stopped after three windows with one second of signal, less than
\* half a window, left from the next start
C12_Witness ==
    /\ pc = "chunked"
    /\ Len(windows) = 3
    /\ Millis(time_seconds(audio_len - start_idx)) = 1000
    /\ 2 * (audio_len - start_idx) < chunk_samples

(***************************************************************************)
(* The speech gate                                                         *)
(***************************************************************************)

\* 100 times the 30th percentile of the ascending frame energies s: the value
\* at rank 0.3 * (n - 1), interpolated between the two neighbouring frames
P30x100(s) ==
    LET rank == 30 * (Len(s) - 1)
        below == s[rank \div 100 + 1]
        above == s[Min(rank \div 100 + 2, Len(s))]
    IN (100 - (rank % 100)) * below + (rank % 100) * above

\* the frames of the k-th evaluated window whose energy is strictly above the
\* 30th percentile of the window
SpeechFrames(k) ==
    {i \in 1..Len(windows[k].rms) :
        100 * windows[k].rms[i] > P30x100(windows[k].rms)}

\* the windows create_chunks evaluated and kept, in the order of evaluation
KeptWindows ==
    LET kept == SelectSeq(windows, LAMBDA w : w.kept)
    IN [i \in 1..Len(kept) |-> kept[i].window]

\* C13: an evaluated window is emitted exactly when its estimated speech
\* duration, speech_frames / total_frames * window duration with a frame
\* counted as speech when its energy is strictly above the 30th percentile of
\* the window, is at least min_speech_threshold; the emitted windows are the
\* kept ones in the order of evaluation, a dropped window takes no position,
\* and their start_time increases strictly.
C13_SpeechGate ==
    /\ \A k \in 1..Len(windows) :
          windows[k].kept <=>
            Cardinality(SpeechFrames(k)) * WindowLen(k)
              >= config.min_speech_threshold * sample_rate
                   * Len(windows[k].rms)
    /\ chunks = KeptWindows
    /\ Len(chunks) = Cardinality({k \in 1..Len(windows) : windows[k].kept})
    /\ \A i, j \in 1..Len(chunks) :
          i < j => Millis(chunks[i].start_time) < Millis(chunks[j].start_time)

\* of three evaluated windows the second was dropped for lack of speech and
\* the third took the second position
C13_Witness ==
    /\ pc = "chunked"
    /\ config.min_speech_threshold = 1
    /\ Len(windows) = 3
    /\ windows[1].kept /\ ~windows[2].kept /\ windows[3].kept
    /\ Len(chunks) = 2
    /\ chunks[2] = windows[3].window

\* every sample, and so every frame energy, of the k-th evaluated window is 0
Silent(k) == \A i \in 1..Len(windows[k].rms) : windows[k].rms[i] = 0

\* C14 as stated: a window whose samples are all zero is never emitted, and
\* an all-silent signal yields zero windows.
C14_Original ==
    /\ \A k \in 1..Len(windows) : Silent(k) => ~windows[k].kept
    /\ (pc = "chunked" /\ \A k \in 1..Len(windows) : Silent(k)) =>
          chunks = <<>>

\* C14 amended: in a window whose samples are all zero no frame exceeds the
\* 30th percentile, so its estimated speech duration is 0; it is emitted
\* exactly when min_speech_threshold is 0, and with a positive
\* min_speech_threshold an all-silent signal yields zero windows.
C14_SilenceDroppedAbovePositiveThreshold ==
    /\ \A k \in 1..Len(windows) :
          Silent(k) =>
            /\ SpeechFrames(k) = {}
            /\ windows[k].kept <=> config.min_speech_threshold = 0
    /\ (/\ pc = "chunked"
        /\ config.min_speech_threshold > 0
        /\ \A k \in 1..Len(windows) : Silent(k)) =>
          chunks = <<>>

\* a silent signal of three windows under a threshold of one second: nothing
\* is emitted
C14_Witness ==
    /\ pc = "chunked"
    /\ config.min_speech_threshold = 1
    /\ Len(windows) = 3
    /\ \A k \in 1..Len(windows) : Silent(k)
    /\ chunks = <<>>

\* the k-th evaluated window is a full-length window of white noise: it has
\* chunk_duration seconds and the energies of its frames, given in ascending
\* order, all differ
FullWhiteNoise(k) ==
    /\ WindowLen(k) = chunk_samples
    /\ \A i \in 1..(Len(windows[k].rms) - 1) :
          windows[k].rms[i] < windows[k].rms[i + 1]

\* C15 as stated: a full-length window of white noise is always emitted
\* whenever chunk_duration >= min_speech_threshold.
C15_Original ==
    \A k \in 1..Len(windows) :
        (FullWhiteNoise(k)
           /\ config.chunk_duration >= config.min_speech_threshold) =>
          windows[k].kept

\* C15 amended: of the T frames of a full-length window of white noise,
\* T - 1 - floor(0.3 * (T - 1)) are above the 30th percentile, which is less
\* than all and at least two thirds of them; the window is emitted exactly
\* when that share of chunk_duration is at least min_speech_threshold, so it
\* is always emitted when chunk_duration >= 1.5 * min_speech_threshold and
\* never when chunk_duration = min_speech_threshold > 0.
C15_WhiteNoiseGate ==
    \A k \in 1..Len(windows) :
        FullWhiteNoise(k) =>
          \A T \in {Len(windows[k].rms)} :
            \A above \in {T - 1 - (3 * (T - 1)) \div 10} :
              /\ Cardinality(SpeechFrames(k)) = above
              /\ above < T
              /\ 3 * above >= 2 * T
              /\ windows[k].kept <=>
                    above * config.chunk_duration
                      >= config.min_speech_threshold * T
              /\ 2 * config.chunk_duration >= 3 * config.min_speech_threshold
                    => windows[k].kept
              /\ (config.min_speech_threshold > 0
                    /\ config.chunk_duration = config.min_speech_threshold)
                    => ~windows[k].kept

\* two full windows of white noise, two seconds each, pass a threshold of one
\* second
C15_Witness ==
    /\ pc = "chunked"
    /\ config.chunk_duration = 2
    /\ config.min_speech_threshold = 1
    /\ Len(windows) = 2
    /\ \A k \in 1..Len(windows) : FullWhiteNoise(k) /\ windows[k].kept

(***************************************************************************)
(* The pipeline without chunks                                             *)
(***************************************************************************)

\* process_meeting_audio has returned a failure and has run no transcription
\* and no merge
FailedBeforeTranscription ==
    /\ pc = "done"
    /\ result.returned
    /\ result.success = FALSE
    /\ result.error # ""
    /\ result.error # "None"
    /\ result.transcript = <<>>
    /\ transcription_results = <<>>
    /\ merge_pos = 0
    /\ merge_calls = <<>>

\* the TextMerger and the Transcriber are left as they are: no merge, no
\* statistics and no transcription has run
NothingRun ==
    UNCHANGED <<accumulated_text, processed_chunks, call, ret, inputs,
                model_loaded>>

\* C16: when create_chunks returns no window, the next step of
\* process_meeting_audio is its return of a failure (success False, a
\* non-empty error, an empty transcript), and from the entry of the call to
\* that return no transcription, merge, analysis or document generation step
\* has run: the TextMerger and the Transcriber are as the call found them.
C16_NoChunksIsFailure ==
    /\ [][(pc = "chunked" /\ chunks = <<>>)
            => (FailedBeforeTranscription' /\ NothingRun)]_vars
    /\ [][pc' \in {"create_chunks", "chunked"}
            => /\ NothingRun
               /\ transcription_results' = <<>>
               /\ merge_pos' = 0
               /\ merge_calls' = <<>>]_vars

\* a signal of two seconds, two windows, had no window with enough speech and
\* the pipeline returned the failure
C16_Witness ==
    /\ pc = "done"
    /\ audio_len = 2 * sample_rate
    /\ chunks = <<>>
    /\ result = failure("No processable audio chunks found (insufficient speech content)")
    /\ transcription_results = <<>>

(***************************************************************************)
(* Fuzzy overlap                                                           *)
(***************************************************************************)

\* a word case-folded and without its trailing punctuation
Folded(word) == rstrip(lower(word), Punctuation)

\* two words are equal after folding, or one is the table's shorthand of the
\* other
Alike(word1, word2) ==
    \E w1 \in {Folded(word1)}, w2 \in {Folded(word2)} :
        w1 = w2 \/ <<w1, w2>> \in variations \/ <<w2, w1>> \in variations

TextLater == <<"l", "a", "t", "e", "r">>
TextSeeYouLater == TextSeeYou \o <<" ">> \o TextLater

\* C17: with a transcript ending "see you" and the new text "c u later" the
\* detected overlap is 2, the largest matching length, the contribution is
\* "later" and the transcript ends "see you later"; in general a compared
\* window of L words in which at least 70% of the positions hold words that
\* are equal after case-folding and punctuation stripping, or table variants
\* of one another, is accepted, so the detected overlap is at least L.
C17_ShorthandOverlap ==
    [][OverlapStep =>
        \A accW \in {split(accumulated_text)},
           newW \in {split(clean_text(call'.new_text))} :
          \A limit \in {Min(Min(Len(accW), Len(newW)), 20)},
             r \in {find_best_overlap(accW, newW)} :
            /\ \A L \in 1..limit :
                  \A tail \in {LastN(accW, L)}, head \in {Take(newW, L)} :
                    10 * Cardinality({i \in 1..L : Alike(tail[i], head[i])})
                        >= 7 * L
                      => /\ sequences_match(tail, head, 7)
                         /\ r >= L
            /\ (/\ Len(accW) >= 2
                /\ LastN(accW, 2) = split(TextSeeYou)
                /\ clean_text(call'.new_text) = TextCULater)
                 => /\ r = 2
                    /\ ret' = TextLater
                    /\ IsSuffix(TextSeeYouLater, accumulated_text')
    ]_vars

\* "c u later" merged after "see you" contributed "later"
C17_Witness ==
    /\ inputs = <<TextSeeYou, TextCULater>>
    /\ call.op = "merge_transcription"
    /\ ret = TextLater
    /\ accumulated_text = TextSeeYouLater

(***************************************************************************)
(* The match threshold: sequences_match on windows of every length up to   *)
(* the cap of find_best_overlap                                            *)
(***************************************************************************)

WordSee == <<"s", "e", "e">>
WordC == <<"c">>
WordU == <<"u">>
WordAlphaSigma == <<"Α", "Σ">>
WordAlphaFinalSigma == <<"α", "ς">>
WordAlphaSmallSigma == <<"α", "σ">>

\* pairs of words that words_similar accepts: equal words, a word with its
\* shorthand, and a word in capitals with its lower case, whose last sigma
\* is the final one
SimilarPairs ==
    {<<TextA, TextA>>, <<WordSee, WordC>>,
     <<WordAlphaSigma, WordAlphaFinalSigma>>}

\* pairs of words that words_similar rejects
DissimilarPairs ==
    {<<TextA, WordU>>, <<WordSee, WordU>>,
     <<WordAlphaSigma, WordAlphaSmallSigma>>}

\* the positions of a window of L words that hold a dissimilar pair: the
\* first d or the last d
DissimilarPositions(L) ==
    {1..d : d \in 0..L} \cup {(L - d + 1)..L : d \in 0..L}

\* the windows sequences_match is called with, as <<seq1, seq2>>: the
\* candidate windows of find_best_overlap, of 1 to 20 words, and the two
\* empty windows only a direct call can hand over
MatchInputs ==
    UNION {{<<[i \in 1..L |-> IF i \in D THEN dp[1] ELSE sp[1]],
              [i \in 1..L |-> IF i \in D THEN dp[2] ELSE sp[2]]>> :
               D \in DissimilarPositions(L),
               sp \in SimilarPairs, dp \in DissimilarPairs} :
           L \in 0..MaxOverlapWords}

\* the call sequences_match(last_words, first_words, min_similarity=0.7) of
\* find_best_overlap
SequencesMatch ==
    /\ call.op = "__init__"
    /\ call' = [op |-> "sequences_match", seq1 |-> inputs[1],
                seq2 |-> inputs[2]]
    /\ ret' = sequences_match(inputs[1], inputs[2], 7)
    /\ UNCHANGED <<accumulated_text, processed_chunks, inputs, twin>>
    /\ UNCHANGED pipelineVars

InitMatch ==
    /\ accumulated_text = <<>>
    /\ processed_chunks = <<>>
    /\ call = [op |-> "__init__"]
    /\ ret = <<>>
    /\ inputs \in MatchInputs
    /\ twin = EmptyMerger
    /\ PipelineIdle

NextMatch == SequencesMatch

SpecMatch == InitMatch /\ [][NextMatch]_vars

\* number of positions of the compared windows that hold a similar pair
Matches ==
    Cardinality({i \in 1..Len(call.seq1) :
                    <<call.seq1[i], call.seq2[i]>> \in SimilarPairs})

\* number of positions of the compared windows that hold a dissimilar pair
Mismatches == Len(call.seq1) - Matches

\* C18: a candidate window of L words (L from 1 to 20) matches exactly when
\* 10 * matches >= 7 * L, so windows of 1, 2 or 3 words need every position
\* similar, a window of 4 words tolerates one dissimilar position, a window
\* of 10 words three and a window of 20 words six.
C18_MatchThreshold ==
    (call.op = "sequences_match" /\ call.seq1 # <<>>) =>
        \A L \in {Len(call.seq1)} :
          /\ ret <=> 10 * Matches >= 7 * L
          /\ L \in {1, 2, 3} => (ret <=> Mismatches = 0)
          /\ L = 4 => (ret <=> Mismatches <= 1)
          /\ L = 10 => (ret <=> Mismatches <= 3)
          /\ L = 20 => (ret <=> Mismatches <= 6)

\* a window of ten words with three dissimilar positions matched
C18_Witness ==
    /\ call.op = "sequences_match"
    /\ Len(call.seq1) = 10
    /\ Mismatches = 3
    /\ ret = TRUE

(***************************************************************************)
(* The state transition and the records of a merge                         *)
(***************************************************************************)

\* the step just taken is a merge_transcription call with a non-blank new_text
NonBlankMergeStep == MergeStep /\ strip(call'.new_text, Whitespace) # <<>>

\* C19 as stated: a merge of a non-blank text into an empty transcript makes
\* the cleaned text the transcript and the contribution; into a non-empty
\* transcript it appends a single space and the unique contribution, also
\* when that contribution is empty.
C19_Original ==
    [][NonBlankMergeStep =>
        \A cleaned \in {clean_text(call'.new_text)} :
          IF accumulated_text = <<>>
          THEN accumulated_text' = cleaned /\ ret' = cleaned
          ELSE accumulated_text' = accumulated_text \o <<" ">> \o ret'
    ]_vars

\* C19 amended: a merge of a non-blank text into an empty transcript makes the
\* cleaned text the transcript and the contribution; into a non-empty
\* transcript it appends a single space and the unique contribution (the
\* cleaned text without its detected overlap) when that contribution is not
\* empty, and leaves the transcript unchanged when it is empty.
C19_AppendNonEmptyContribution ==
    [][NonBlankMergeStep =>
        \A cleaned \in {clean_text(call'.new_text)} :
          IF accumulated_text = <<>>
          THEN accumulated_text' = cleaned /\ ret' = cleaned
          ELSE /\ ret' = remove_overlap(accumulated_text, cleaned)
               /\ ret' # <<>> =>
                     accumulated_text' = accumulated_text \o <<" ">> \o ret'
               /\ ret' = <<>> => accumulated_text' = accumulated_text
    ]_vars

\* the same text merged twice: the second merge contributes nothing and the
\* transcript stays as it was, without a trailing space
C19_Witness ==
    /\ inputs = <<TextFox, TextFox>>
    /\ call.op = "merge_transcription"
    /\ ret = <<>>
    /\ accumulated_text = TextFox
    /\ Len(processed_chunks) = 2

\* C20: processed_chunks is append-only: its value before a step is a prefix
\* of its value after the step; a merge of a non-blank text appends exactly one
\* record with the fields chunk_info, original_text, unique_text and
\* accumulated_length, the last being the length of accumulated_text right
\* after the merge; get_final_transcript and get_processing_stats leave it as
\* it is.
C20_RecordsAppendOnly ==
    [][/\ IsPrefix(processed_chunks, processed_chunks')
       /\ NonBlankMergeStep =>
             /\ Len(processed_chunks') = Len(processed_chunks) + 1
             /\ processed_chunks'[Len(processed_chunks')] =
                   [chunk_info |-> call'.chunk_info,
                    original_text |-> clean_text(call'.new_text),
                    unique_text |-> ret',
                    accumulated_length |-> Len(accumulated_text')]
       /\ call'.op \in {"get_final_transcript", "get_processing_stats"} =>
             processed_chunks' = processed_chunks
    ]_vars

\* three merges left three records, the statistics were read, and the records
\* still carry the transcript lengths 19, 30 and 38 of their merges
C20_Witness ==
    /\ inputs = <<TextFox, TextJumps, TextSeeYou>>
    /\ call.op = "get_processing_stats"
    /\ Len(processed_chunks) = 3
    /\ processed_chunks[1].accumulated_length = 19
    /\ processed_chunks[2].accumulated_length = 30
    /\ processed_chunks[3].accumulated_length = 38
    /\ Len(accumulated_text) = 38

(***************************************************************************)
(* clean_text on every short text over letters, spaces, brackets and       *)
(* parentheses                                                             *)
(***************************************************************************)

\* longest text clean_text is applied to, in characters
MaxCleanLen == 6

\* the characters of the texts clean_text is applied to
CleanAlphabet == {"a", " ", "[", "]", "(", ")"}

\* the texts clean_text is applied to
CleanInputs == UNION {[1..n -> CleanAlphabet] : n \in 0..MaxCleanLen}

\* the call self.clean_text(new_text) of merge_transcription
CleanText ==
    /\ call.op = "__init__"
    /\ call' = [op |-> "clean_text", text |-> inputs[1]]
    /\ ret' = clean_text(inputs[1])
    /\ UNCHANGED <<accumulated_text, processed_chunks, inputs, twin>>
    /\ UNCHANGED pipelineVars

InitClean ==
    /\ accumulated_text = <<>>
    /\ processed_chunks = <<>>
    /\ call = [op |-> "__init__"]
    /\ ret = <<>>
    /\ \E text \in CleanInputs : inputs = <<text>>
    /\ twin = EmptyMerger
    /\ PipelineIdle

NextClean == CleanText

SpecClean == InitClean /\ [][NextClean]_vars

\* text holds two whitespace characters in a row
WhitespaceRun(text) ==
    \E i \in 1..(Len(text) - 1) :
        text[i] \in Whitespace /\ text[i + 1] \in Whitespace

\* text holds an annotation: an opening character with its closing character
\* somewhere after it
Annotated(text, open, close) ==
    \E i, j \in 1..Len(text) : i < j /\ text[i] = open /\ text[j] = close

\* C21 as stated: the text clean_text returns holds no run of two or more
\* whitespace characters and no bracketed or parenthesized annotation.
C21_Original ==
    call.op = "clean_text" =>
        /\ ~WhitespaceRun(ret)
        /\ ~Annotated(ret, "[", "]")
        /\ ~Annotated(ret, "(", ")")

(***************************************************************************)
(* Termination of the create_chunks loop                                   *)
(***************************************************************************)

\* largest chunk_duration of a configuration of the fair runs, in seconds
MaxFairChunkDuration == 3

\* longest audio of the fair runs, in half seconds
MaxFairHalfSeconds == 7

\* the configurations and signals the fair runs start from
InitChunkerFair ==
    /\ InitChunker
    /\ config.chunk_duration <= MaxFairChunkDuration
    /\ audio_len <= MaxFairHalfSeconds * (sample_rate \div 2)

\* create_chunks runs on its own thread of control: an iteration that can be
\* taken is taken
SpecChunkerFair ==
    InitChunkerFair /\ [][NextChunker]_vars /\ WF_vars(NextChunker)

\* the step just taken is an iteration of the while loop of create_chunks
LoopIteration == Len(windows') = Len(windows) + 1

\* C22: for every signal length and every configuration with
\* overlap_duration < chunk_duration the loop of create_chunks terminates;
\* every iteration adds the step, of at least one sample, to start_idx, and
\* the loop is left exactly when start_idx >= len(audio) or the signal that
\* remains from start_idx is shorter than half a window.
C22_LoopTerminates ==
    /\ <>(pc = "chunked")
    /\ [][LoopIteration =>
            /\ step_samples >= 1
            /\ start_idx' = start_idx + step_samples
            /\ start_idx' > start_idx
            /\ pc' = "chunked" <=>
                  \/ start_idx' >= audio_len
                  \/ 2 * (audio_len - start_idx') < chunk_samples
       ]_vars
    /\ [][(pc = "create_chunks" /\ pc' = "chunked" /\ ~LoopIteration) =>
            start_idx >= audio_len
       ]_vars

\* the loop ended after four iterations with start_idx beyond the end of the
\* signal
C22_Witness ==
    /\ pc = "chunked"
    /\ Len(windows) = 4
    /\ start_idx >= audio_len

(***************************************************************************)
(* Texts without words                                                     *)
(***************************************************************************)

\* C23 as stated: a merge whose new_text is whitespace-only and a merge whose
\* new_text is empty after cleaning (such as "[music]") have the same effect
\* in every state of the merger: the empty string is returned,
\* accumulated_text is unchanged and no record is appended to
\* processed_chunks.
C23_Original ==
    [][(MergeStep /\ clean_text(call'.new_text) = <<>>)
        => /\ ret' = <<>>
           /\ accumulated_text' = accumulated_text
           /\ Len(processed_chunks') = Len(processed_chunks)
    ]_vars

(***************************************************************************)
(* Two mergers, the same texts, different chunk_info                       *)
(***************************************************************************)

\* the texts both mergers are given
TwinTexts == {TextBlank, TextFox, TextJumps, TextMusic}

\* the chunk_info the second merger is given: any index in any order, so also
\* a repeated and a decreasing one
TwinChunkInfos == {[index |-> i] : i \in {0, 1}}

\* one call of merge_transcription on each merger, with the same new_text:
\* the first is given the position of the call as index, the second any
\* chunk_info
MergeBoth ==
    /\ Len(inputs) < MaxCalls
    /\ \E new_text \in TwinTexts, chunk_info \in ChunkInfos,
          other_info \in TwinChunkInfos :
           /\ DoMerge(new_text, chunk_info)
           /\ twin' = merge_transcription(twin, new_text, other_info)
    /\ UNCHANGED pipelineVars

InitTwin == MergerInit /\ PipelineIdle

NextTwin == MergeBoth

SpecTwin == InitTwin /\ [][NextTwin]_vars

\* C24: merge_transcription accepts any chunk_info, also a repeated or a
\* decreasing index, and records it; chunk_info has no influence on the text:
\* after every call the two mergers have the same accumulated_text, the same
\* return value and the same unique_text in every record.
C24_ChunkInfoIgnored ==
    /\ twin.accumulated_text = accumulated_text
    /\ twin.ret = ret
    /\ UniqueTexts(twin.processed_chunks) = UniqueTexts(processed_chunks)
    /\ \A k \in 1..Len(twin.processed_chunks) :
          twin.processed_chunks[k].chunk_info \in TwinChunkInfos
    /\ \A k \in 1..Len(processed_chunks) :
          processed_chunks[k].chunk_info.index < Len(inputs)

\* the second merger was given the indices 1, 1, 0 for the texts the first
\* merger was given with 0, 1, 2, and both hold the same transcript
C24_Witness ==
    /\ inputs = <<TextFox, TextJumps, TextFox>>
    /\ Len(twin.processed_chunks) = 3
    /\ twin.processed_chunks[1].chunk_info.index = 1
    /\ twin.processed_chunks[2].chunk_info.index = 1
    /\ twin.processed_chunks[3].chunk_info.index = 0
    /\ processed_chunks[3].chunk_info.index = 2
    /\ twin.accumulated_text = accumulated_text
    /\ Len(accumulated_text) > Len(TextFoxJumpsOver)

====
